---- MODULE Spec2Model ----
(***************************************************************************)
(* Model of the PI-planning negotiation engine: ProgramManager             *)
(* (src/src/agents/program_manager.py), TeamAgent                          *)
(* (src/src/agents/team_agent.py) and DependencyAwarePlanningStrategy      *)
(* (src/src/core/strategies.py).                                           *)
(*                                                                         *)
(* Conventions                                                             *)
(*  - A Python str that the code inspects character by character (an       *)
(*    iteration name) is a sequence of one-character strings.              *)
(*  - An Optional[float] is <<>> for None and <<v>> for the value v.       *)
(*  - A dict is a function whose DOMAIN is the set of keys present.        *)
(*  - Efforts, loads and capacities are story points held as integers;     *)
(*    the buffer is held in percent, and the capacity comparison is made   *)
(*    on both sides multiplied by 100, so it is exact.                     *)
(*  - List indices are 0-based as in the code; Nth0 reads a list at one.   *)
(***************************************************************************)
EXTENDS Integers, Sequences, FiniteSets, TLC

(***************************************************************************)
(* Bounds of the model                                                     *)
(***************************************************************************)
MaxStories == 3
MaxRounds == 2

(***************************************************************************)
(* Generic helpers: Python dict / list / Optional                          *)
(***************************************************************************)
None == <<>>
Some(v) == <<v>>

Get(d, k, default) == IF k \in DOMAIN d THEN d[k] ELSE default

Put(d, k, v) == [x \in (DOMAIN d) \cup {k} |-> IF x = k THEN v ELSE d[x]]

Nth0(list, i) == list[i + 1]

Contains(list, x) == \E i \in 1..Len(list) : list[i] = x

\* list.index(x) for x in list: the first position holding x, 0-based
IndexOf(list, x) ==
    (CHOOSE i \in 1..Len(list) :
        /\ list[i] = x
        /\ \A j \in 1..(i - 1) : list[j] # x) - 1

Max(a, b) == IF a >= b THEN a ELSE b

\* `x = v` followed by code F that uses x: v is evaluated once
Bind(v, F(_)) == CHOOSE result \in {F(x) : x \in {v}} : TRUE

(***************************************************************************)
(* Iteration names and the number the code reads out of them               *)
(***************************************************************************)
Digits == <<"0", "1", "2", "3", "4", "5", "6", "7", "8", "9">>

IsDigit(c) == Contains(Digits, c)

DigitVal(c) == IndexOf(Digits, c)

RECURSIVE DigitRun(_, _, _)
\* int() of the maximal run of digits of name that starts at position i
DigitRun(name, i, acc) ==
    IF i > Len(name) \/ ~IsDigit(name[i])
    THEN acc
    ELSE DigitRun(name, i + 1, acc * 10 + DigitVal(name[i]))

\* re.search(r'\d+', name): the number of the first run of digits,
\* or the sentinel 999 when the name has no digit
SentinelNumber == 999

iteration_number(name) ==
    IF \E i \in 1..Len(name) : IsDigit(name[i])
    THEN LET first == CHOOSE i \in 1..Len(name) :
                         /\ IsDigit(name[i])
                         /\ \A j \in 1..(i - 1) : ~IsDigit(name[j])
         IN  DigitRun(name, first, 0)
    ELSE SentinelNumber

\* variant: an iteration of the same number counts as earlier
_is_iteration_before_allowing_same(iter1, iter2) ==
    iteration_number(iter1) <= iteration_number(iter2)

_is_iteration_before(iter1, iter2) ==
    iteration_number(iter1) < iteration_number(iter2)

\* variant: the same iteration does not count
_is_iteration_strictly_before(iter1, iter2) ==
    iteration_number(iter1) < iteration_number(iter2)

_is_iteration_before_or_same(iter1, iter2) ==
    iteration_number(iter1) <= iteration_number(iter2)

(***************************************************************************)
(* UserStory                                                               *)
(***************************************************************************)
FallbackEffort == 5

\* UserStory.get_effort
get_effort(us) ==
    IF us.state = "active"
    THEN (IF us.remaining_work # None THEN us.remaining_work ELSE us.effort)
    ELSE us.effort

\* variant: the remaining work of an active story is not looked at
effort_or_default_of_effort_field(us) ==
    IF us.effort = None \/ us.effort[1] = 0 THEN FallbackEffort ELSE us.effort[1]

\* `user_story.get_effort() or 5.0`: None and 0 are both falsy
effort_or_default(us) ==
    LET e == get_effort(us)
    IN  IF e = None \/ e[1] = 0 THEN FallbackEffort ELSE e[1]

(***************************************************************************)
(* Python str operations used on iteration names                           *)
(***************************************************************************)
\* the characters of the modelled names in code-point order (str comparison)
CodePointOrder ==
    <<" ", "0", "1", "2", "3", "4", "5", "6", "7", "8", "9",
      "A", "B", "C", "D", "E", "F", "G", "H", "I", "J", "K", "L", "M",
      "N", "O", "P", "Q", "R", "S", "T", "U", "V", "W", "X", "Y", "Z">>

CodePoint(c) == IndexOf(CodePointOrder, c)

RECURSIVE StrLess(_, _)
\* a < b on Python str: lexicographic by code point, a proper prefix is less
StrLess(a, b) ==
    IF b = <<>> THEN FALSE
    ELSE IF a = <<>> THEN TRUE
    ELSE IF a[1] # b[1] THEN CodePoint(a[1]) < CodePoint(b[1])
    ELSE StrLess(Tail(a), Tail(b))

RECURSIVE StrMax(_, _)
\* max(list, default=...) on str: the first maximal element
StrMax(list, default) ==
    IF list = <<>> THEN default
    ELSE IF Len(list) = 1 THEN list[1]
    ELSE LET m == StrMax(Tail(list), default)
         IN  IF StrLess(list[1], m) THEN m ELSE list[1]

RECURSIVE str(_)
\* str(n) for n >= 0: decimal digits, no leading zero
str(n) ==
    IF n < 10 THEN <<Digits[n + 1]>>
    ELSE str(n \div 10) \o <<Digits[(n % 10) + 1]>>

StartsWith(s, prefix) ==
    /\ Len(prefix) <= Len(s)
    /\ SubSeq(s, 1, Len(prefix)) = prefix

RECURSIVE replace(_, _, _)
\* s.replace(old, new) for a non-empty old: every non-overlapping
\* occurrence, left to right
replace(s, old, new) ==
    IF s = <<>> THEN <<>>
    ELSE IF StartsWith(s, old)
         THEN new \o replace(SubSeq(s, Len(old) + 1, Len(s)), old, new)
         ELSE <<s[1]>> \o replace(Tail(s), old, new)

\* TeamAgent._next_iteration
_next_iteration(iteration) ==
    Bind(iteration,
         LAMBDA name :
             IF \E i \in 1..Len(name) : IsDigit(name[i])
             THEN Bind(iteration_number(name),
                       LAMBDA num : replace(name, str(num), str(num + 1)))
             ELSE name)

\* TeamAgent._find_next_available_iteration
_find_next_available_iteration(current_iteration, required_effort, scheduled_stories) ==
    _next_iteration(current_iteration)

(***************************************************************************)
(* TeamAgent.check_capacity_and_dependencies                               *)
(*   team: the agent's Team; load: the agent's current_assignments;        *)
(*   buffer: Config.CAPACITY_BUFFER in percent.                            *)
(*   The reason text is kept as a record of what the text is built from.   *)
(***************************************************************************)
\* the deps of the story that are missing from the map or ill-ordered
missing_feature_deps(user_story, iteration, scheduled_features) ==
    SelectSeq(user_story.depends_on_features,
              LAMBDA d : \/ d \notin DOMAIN scheduled_features
                         \/ ~_is_iteration_before(scheduled_features[d], iteration))

\* variant: a dependency that is not scheduled yet is not reported
missing_story_deps_only_scheduled(user_story, iteration, scheduled_stories) ==
    SelectSeq(user_story.depends_on_stories,
              LAMBDA d : /\ d \in DOMAIN scheduled_stories
                         /\ ~_is_iteration_before_or_same(scheduled_stories[d], iteration))

missing_story_deps(user_story, iteration, scheduled_stories) ==
    SelectSeq(user_story.depends_on_stories,
              LAMBDA d : \/ d \notin DOMAIN scheduled_stories
                         \/ ~_is_iteration_before_or_same(scheduled_stories[d], iteration))

\* the iterations of the deps that are in the map, in the order of the deps
ScheduledDepIterations(deps, scheduled) ==
    LET present == SelectSeq(deps, LAMBDA d : d \in DOMAIN scheduled)
    IN  [i \in 1..Len(present) |-> scheduled[present[i]]]

\* variant: `if not capacity`, an override of 0 falls back to the default
capacity_of_zero_as_absent(team, iteration) ==
    LET sprint_capacity == Get(team.capacity_per_sprint, iteration, None)
    IN  IF sprint_capacity # None /\ sprint_capacity[1] # 0
        THEN sprint_capacity[1]
        ELSE team.capacity_per_iteration

\* capacity of the team for the iteration: the sprint's "total" when the
\* override map has one (None stands for an entry without a "total"), the
\* team default otherwise
capacity_of(team, iteration) ==
    LET sprint_capacity == Get(team.capacity_per_sprint, iteration, None)
    IN  IF sprint_capacity # None
        THEN sprint_capacity[1]
        ELSE team.capacity_per_iteration

\* capacity * (1.0 - buffer), times 100
max_allowed_capacity_x100(team, iteration, buffer) ==
    capacity_of(team, iteration) * (100 - buffer)

\* variant: the load already committed is not subtracted
available_capacity_x100_ignoring_load(team, load, iteration, buffer) ==
    max_allowed_capacity_x100(team, iteration, buffer)

\* max_allowed_capacity - current_load, times 100
available_capacity_x100(team, load, iteration, buffer) ==
    max_allowed_capacity_x100(team, iteration, buffer) - Get(load, iteration, 0) * 100

capacity_check(team, load, buffer, user_story, iteration, scheduled_stories) ==
    LET available == available_capacity_x100(team, load, iteration, buffer)
        required_effort == effort_or_default(user_story)
    IN  IF required_effort * 100 <= available
        THEN [can_do |-> TRUE,
              reason |-> [kind |-> "capacity_available", deps |-> <<>>,
                          iteration |-> iteration, available_x100 |-> available],
              suggested_iteration |-> None]
        ELSE [can_do |-> FALSE,
              reason |-> [kind |-> "no_capacity", deps |-> <<>>,
                          iteration |-> iteration, available_x100 |-> available],
              suggested_iteration |->
                  Some(_find_next_available_iteration(iteration, required_effort,
                                                      scheduled_stories))]

\* variant: the story-level dependencies are checked before the grouping-level ones
check_capacity_and_dependencies_stories_first(team, load, buffer, user_story, iteration, scheduled_stories, scheduled_features) ==
    LET mf == missing_feature_deps(user_story, iteration, scheduled_features)
        ms == missing_story_deps(user_story, iteration, scheduled_stories)
    IN  IF ms # <<>>
        THEN [can_do |-> FALSE,
              reason |-> [kind |-> "waiting_for_stories", deps |-> ms,
                          iteration |-> iteration, available_x100 |-> 0],
              suggested_iteration |-> None]
        ELSE IF mf # <<>>
        THEN [can_do |-> FALSE,
              reason |-> [kind |-> "waiting_for_features", deps |-> mf,
                          iteration |-> iteration, available_x100 |-> 0],
              suggested_iteration |-> None]
        ELSE capacity_check(team, load, buffer, user_story, iteration, scheduled_stories)

check_capacity_and_dependencies(team, load, buffer, user_story, iteration, scheduled_stories, scheduled_features) ==
    LET mf == missing_feature_deps(user_story, iteration, scheduled_features)
        ms == missing_story_deps(user_story, iteration, scheduled_stories)
    IN  IF mf # <<>>
        THEN [can_do |-> FALSE,
              reason |-> [kind |-> "waiting_for_features", deps |-> mf,
                          iteration |-> iteration, available_x100 |-> 0],
              suggested_iteration |->
                  IF DOMAIN scheduled_features # {}
                  THEN Some(_next_iteration(
                           StrMax(ScheduledDepIterations(user_story.depends_on_features,
                                                         scheduled_features),
                                  iteration)))
                  ELSE None]
        ELSE IF ms # <<>>
        THEN [can_do |-> FALSE,
              reason |-> [kind |-> "waiting_for_stories", deps |-> ms,
                          iteration |-> iteration, available_x100 |-> 0],
              suggested_iteration |->
                  IF DOMAIN scheduled_stories # {}
                  THEN Some(_next_iteration(
                           StrMax(ScheduledDepIterations(user_story.depends_on_stories,
                                                         scheduled_stories),
                                  iteration)))
                  ELSE None]
        ELSE capacity_check(team, load, buffer, user_story, iteration, scheduled_stories)

\* TeamAgent.can_do_user_story
can_do_user_story(team, load, buffer, user_story, iteration, scheduled_stories, scheduled_features) ==
    check_capacity_and_dependencies(team, load, buffer, user_story, iteration,
                                    scheduled_stories, scheduled_features)

(***************************************************************************)
(* TeamAgent.find_assignment_slot                                          *)
(***************************************************************************)
NoSlotReason ==
    [kind |-> "No capacity or dependencies met in any future iteration", deps |-> <<>>,
     iteration |-> <<>>, available_x100 |-> 0]

RECURSIVE scan_iterations_last_fit(_, _, _, _, _, _, _, _)
\* variant: the last iteration that can take the story, not the first
scan_iterations_last_fit(team, load, buffer, user_story, i, iterations, scheduled_stories, scheduled_features) ==
    IF i >= Len(iterations)
    THEN [iteration |-> None, reason |-> NoSlotReason]
    ELSE LET response == check_capacity_and_dependencies(
                             team, load, buffer, user_story, Nth0(iterations, i),
                             scheduled_stories, scheduled_features)
             later == scan_iterations_last_fit(team, load, buffer, user_story, i + 1,
                                               iterations, scheduled_stories,
                                               scheduled_features)
         IN  IF later.iteration # None THEN later
             ELSE IF response.can_do
             THEN [iteration |-> Some(Nth0(iterations, i)), reason |-> response.reason]
             ELSE [iteration |-> None, reason |-> NoSlotReason]

\* variant: only the start iteration is tried
scan_iterations_single(team, load, buffer, user_story, i, iterations, scheduled_stories, scheduled_features) ==
    IF i >= Len(iterations)
    THEN [iteration |-> None, reason |-> NoSlotReason]
    ELSE LET response == check_capacity_and_dependencies(
                             team, load, buffer, user_story, Nth0(iterations, i),
                             scheduled_stories, scheduled_features)
         IN  IF response.can_do
             THEN [iteration |-> Some(Nth0(iterations, i)), reason |-> response.reason]
             ELSE [iteration |-> None, reason |-> NoSlotReason]

RECURSIVE scan_iterations(_, _, _, _, _, _, _, _)
\* the loop `for i in range(start_index, len(iterations))`, from i on
scan_iterations(team, load, buffer, user_story, i, iterations, scheduled_stories, scheduled_features) ==
    IF i >= Len(iterations)
    THEN [iteration |-> None, reason |-> NoSlotReason]
    ELSE LET response == check_capacity_and_dependencies(
                             team, load, buffer, user_story, Nth0(iterations, i),
                             scheduled_stories, scheduled_features)
         IN  IF response.can_do
             THEN [iteration |-> Some(Nth0(iterations, i)), reason |-> response.reason]
             ELSE scan_iterations(team, load, buffer, user_story, i + 1, iterations,
                                  scheduled_stories, scheduled_features)


find_assignment_slot(team, load, buffer, user_story, start_iteration, iterations, scheduled_stories, scheduled_features) ==
    Bind(IF Contains(iterations, start_iteration)
         THEN IndexOf(iterations, start_iteration)
         ELSE 0,
         LAMBDA start_index :
             scan_iterations(team, load, buffer, user_story, start_index, iterations,
                             scheduled_stories, scheduled_features))

(***************************************************************************)
(* DependencyAwarePlanningStrategy.find_slot                               *)
(***************************************************************************)
BeyondIterationsReason ==
    [kind |-> "Dependencies push start date beyond available iterations", deps |-> <<>>,
     iteration |-> <<>>, available_x100 |-> 0]

RECURSIVE fold_start_index_last_wins(_, _, _, _, _, _)
\* variant: `start_index = idx + step`, the max with the value so far is lost
fold_start_index_last_wins(deps, k, scheduled, iterations, step, start_index) ==
    IF k > Len(deps) THEN start_index
    ELSE LET dep_id == deps[k]
             next == IF /\ dep_id \in DOMAIN scheduled
                        /\ Contains(iterations, scheduled[dep_id])
                     THEN IndexOf(iterations, scheduled[dep_id]) + step
                     ELSE start_index
         IN  fold_start_index_last_wins(deps, k + 1, scheduled, iterations, step, next)

RECURSIVE fold_start_index(_, _, _, _, _, _)
\* the two `for dep_id in ...` loops: start_index after the deps from k on,
\* each scheduled dep whose iteration is in the list raising it to idx + step
fold_start_index(deps, k, scheduled, iterations, step, start_index) ==
    IF k > Len(deps) THEN start_index
    ELSE LET dep_id == deps[k]
             next == IF /\ dep_id \in DOMAIN scheduled
                        /\ Contains(iterations, scheduled[dep_id])
                     THEN Max(start_index, IndexOf(iterations, scheduled[dep_id]) + step)
                     ELSE start_index
         IN  fold_start_index(deps, k + 1, scheduled, iterations, step, next)

\* variant: the grouping-level dependencies do not move the start
earliest_start_index_ignoring_features(user_story, iterations, scheduled_stories, scheduled_features) ==
    fold_start_index(user_story.depends_on_stories, 1, scheduled_stories, iterations, 0, 0)

\* the start index find_slot computes before it delegates
earliest_start_index(user_story, iterations, scheduled_stories, scheduled_features) ==
    LET after_features == fold_start_index(user_story.depends_on_features, 1,
                                           scheduled_features, iterations, 1, 0)
    IN  fold_start_index(user_story.depends_on_stories, 1,
                         scheduled_stories, iterations, 0, after_features)

\* variant: a start beyond the list is pulled back to the last iteration
find_slot_clamped(user_story, team, load, buffer, iterations, scheduled_stories, scheduled_features) ==
    Bind(earliest_start_index(user_story, iterations, scheduled_stories, scheduled_features),
         LAMBDA start_index :
             IF iterations = <<>>
             THEN [iteration |-> None, reason |-> BeyondIterationsReason]
             ELSE find_assignment_slot(team, load, buffer, user_story,
                                       IF start_index >= Len(iterations)
                                       THEN Nth0(iterations, Len(iterations) - 1)
                                       ELSE Nth0(iterations, start_index),
                                       iterations, scheduled_stories, scheduled_features))

find_slot(user_story, team, load, buffer, iterations, scheduled_stories, scheduled_features) ==
    Bind(earliest_start_index(user_story, iterations, scheduled_stories, scheduled_features),
         LAMBDA start_index :
             IF start_index >= Len(iterations)
             THEN [iteration |-> None, reason |-> BeyondIterationsReason]
             ELSE find_assignment_slot(team, load, buffer, user_story,
                                       Nth0(iterations, start_index), iterations,
                                       scheduled_stories, scheduled_features))

(***************************************************************************)
(* StandardPrioritization.prioritize.  A Feature is a record; the cost of  *)
(* delay, business value times an urgency boost of 1.0, 1.5 or 2.0, is     *)
(* held doubled, and the WSJF score as the fraction it is computed from.   *)
(* A milestone is its target_date, an instant or None.                     *)
(***************************************************************************)
\* int(''.join(filter(str.isdigit, name)) or '999'): all digits of the name
\* read as one number
all_digits_number(name) ==
    Bind(SelectSeq(name, IsDigit),
         LAMBDA digits : IF digits = <<>> THEN SentinelNumber ELSE DigitRun(digits, 1, 0))

\* the urgency boost, doubled
urgency_boost_x2(feature) ==
    IF feature.deadline_sprint # None /\ feature.deadline_sprint[1] # <<>>
    THEN (IF all_digits_number(feature.deadline_sprint[1]) <= 2 THEN 4
          ELSE IF all_digits_number(feature.deadline_sprint[1]) <= 4 THEN 3
          ELSE 2)
    ELSE 2

DefaultBusinessValue == 100

\* the body of `for feature in features`: the metrics are written to the feature
prepare_metrics(feature) ==
    LET business_value == IF feature.business_value = None \/ feature.business_value[1] = 0
                          THEN DefaultBusinessValue
                          ELSE feature.business_value[1]
        cost_of_delay_x2 == business_value * urgency_boost_x2(feature)
        effort == IF feature.effort = None \/ feature.effort[1] = 0
                  THEN 1
                  ELSE feature.effort[1]
    IN  [feature EXCEPT !.business_value = Some(business_value),
                        !.cost_of_delay_x2 = Some(cost_of_delay_x2),
                        !.wsjf_score = Some([num |-> cost_of_delay_x2, den |-> 2 * effort])]

MinOf(I) == CHOOSE i \in I : \A j \in I : i <= j

\* variant: the cost of delay enters the key as it is, not negated
sort_key_cost_ascending(f) ==
    LET milestone_dates == SelectSeq(f.milestones, LAMBDA m : m # None)
    IN  [target_date_priority |->
             IF milestone_dates # <<>>
             THEN Some(MinOf({milestone_dates[i][1] : i \in 1..Len(milestone_dates)}))
             ELSE None,
         deadline_priority |->
             IF f.deadline_sprint # None /\ f.deadline_sprint[1] # <<>>
             THEN all_digits_number(f.deadline_sprint[1])
             ELSE SentinelNumber,
         cost_of_delay_x2 |->
             IF f.cost_of_delay_x2 = None THEN 0 ELSE f.cost_of_delay_x2[1]]

\* sort_key: target_date_priority is None for float('inf')
sort_key(f) ==
    LET milestone_dates == SelectSeq(f.milestones, LAMBDA m : m # None)
    IN  [target_date_priority |->
             IF milestone_dates # <<>>
             THEN Some(MinOf({milestone_dates[i][1] : i \in 1..Len(milestone_dates)}))
             ELSE None,
         deadline_priority |->
             IF f.deadline_sprint # None /\ f.deadline_sprint[1] # <<>>
             THEN all_digits_number(f.deadline_sprint[1])
             ELSE SentinelNumber,
         cost_of_delay_x2 |->
             IF f.cost_of_delay_x2 = None THEN 0 ELSE 0 - f.cost_of_delay_x2[1]]

\* a < b on the key tuples
key_less(a, b) ==
    IF a.target_date_priority # b.target_date_priority
    THEN /\ a.target_date_priority # None
         /\ \/ b.target_date_priority = None
            \/ a.target_date_priority[1] < b.target_date_priority[1]
    ELSE IF a.deadline_priority # b.deadline_priority
    THEN a.deadline_priority < b.deadline_priority
    ELSE a.cost_of_delay_x2 < b.cost_of_delay_x2

\* one step of a stable sort: x goes before the first element that is
\* greater than it
insert_sorted(list, x) ==
    LET greater == {i \in 1..Len(list) : key_less(sort_key(x), sort_key(list[i]))}
        at == IF greater = {} THEN Len(list) + 1 ELSE MinOf(greater)
    IN  SubSeq(list, 1, at - 1) \o <<x>> \o SubSeq(list, at, Len(list))

RECURSIVE sorted(_, _)
\* sorted(features, key=sort_key) of the first k features; the sort is stable
sorted(features, k) ==
    IF k = 0 THEN <<>>
    ELSE insert_sorted(sorted(features, k - 1), features[k])

prioritize(features) ==
    Bind([i \in 1..Len(features) |-> prepare_metrics(features[i])],
         LAMBDA prepared : sorted(prepared, Len(prepared)))

(***************************************************************************)
(* ProgramManager.build_sequence                                           *)
(***************************************************************************)
RECURSIVE build_sequence_last_first(_)
\* variant: each grouping's stories are put in front of those gathered so far
build_sequence_last_first(features) ==
    IF features = <<>> THEN <<>>
    ELSE build_sequence_last_first(Tail(features)) \o features[1].user_stories

RECURSIVE build_sequence(_)
build_sequence(features) ==
    IF features = <<>> THEN <<>>
    ELSE features[1].user_stories \o build_sequence(Tail(features))

(***************************************************************************)
(* ProgramManager.__init__: the team_agents dict.  An agent is named by    *)
(* the position in `teams` of the team it was built for.                   *)
(***************************************************************************)
\* {team.name: TeamAgent(team) for team in teams}: a later team of the same
\* name replaces the earlier one
agents_by_name(teams) ==
    [n \in {teams[i].name : i \in 1..Len(teams)} |->
        CHOOSE i \in 1..Len(teams) :
            /\ teams[i].name = n
            /\ \A j \in (i + 1)..Len(teams) : teams[j].name # n]

RECURSIVE add_ids_to_first_agent(_, _, _)
\* variant: every id stands for the agent of the first team
add_ids_to_first_agent(teams, k, agents) ==
    IF k > Len(teams) THEN agents
    ELSE add_ids_to_first_agent(teams, k + 1,
                                IF teams[k].id \notin DOMAIN agents
                                THEN Put(agents, teams[k].id, agents[teams[1].name])
                                ELSE agents)

RECURSIVE add_ids(_, _, _)
\* for team in teams: if team.id not in team_agents: team_agents[team.id] = ...
add_ids(teams, k, agents) ==
    IF k > Len(teams) THEN agents
    ELSE add_ids(teams, k + 1,
                 IF teams[k].id \notin DOMAIN agents
                 THEN Put(agents, teams[k].id, agents[teams[k].name])
                 ELSE agents)

team_agents_of(teams) == add_ids(teams, 1, agents_by_name(teams))

\* variant: a team nobody knows falls back to the first team's agent
resolve_team_agent_with_fallback(teams, assigned_team_id) ==
    LET agents == team_agents_of(teams)
    IN  IF assigned_team_id \in DOMAIN agents
        THEN agents[assigned_team_id]
        ELSE agents[teams[1].name]

\* run_negotiation, lines 91-95: the agent a story's assigned team resolves
\* to, 0 when there is none
resolve_team_agent(teams, assigned_team_id) ==
    LET agents == team_agents_of(teams)
    IN  IF assigned_team_id \in DOMAIN agents
        THEN agents[assigned_team_id]
        ELSE IF \E i \in 1..Len(teams) : teams[i].id = assigned_team_id
             THEN LET m == CHOOSE i \in 1..Len(teams) :
                               /\ teams[i].id = assigned_team_id
                               /\ \A j \in 1..(i - 1) : teams[j].id # assigned_team_id
                  IN  Get(agents, teams[m].name, 0)
             ELSE 0

(***************************************************************************)
(* Inputs of a planning run                                                *)
(***************************************************************************)
S1 == <<"S", "1">>
S2 == <<"S", "2">>
S3 == <<"S", "3">>
Alpha == <<"A", "L", "P", "H", "A">>
Beta == <<"B", "E", "T", "A">>
TBD == <<"T", "B", "D">>

\* numbered names in order, names without a digit, numbered names listed
\* against their numbers, and no iteration at all
IterationLists == {<<S1, S2, S3>>, <<Alpha, Beta>>, <<S2, S1>>, <<>>}

TeamA == [id |-> "a", name |-> "A", capacity_per_iteration |-> 20,
          capacity_per_sprint |-> <<>>]
TeamAWithSprint == [id |-> "a", name |-> "A", capacity_per_iteration |-> 20,
                    capacity_per_sprint |-> (S2 :> Some(10))]
\* team B's override map: an entry for S2 that carries no "total", and a
\* total of 0 for S3
TeamB == [id |-> "b", name |-> "B", capacity_per_iteration |-> 10,
          capacity_per_sprint |-> (S2 :> None) @@ (S3 :> Some(0))]

TeamLists == {<<TeamA>>, <<TeamAWithSprint, TeamB>>}

\* Config.CAPACITY_BUFFER in percent: none, and the default 0.20
Buffers == {0, 20}

NoTeam == ""

Story(id, feature_id, assigned_team, effort, remaining_work, state, dep_features, dep_stories) ==
    [id |-> id, title |-> <<"Story", id>>, feature_id |-> feature_id,
     assigned_team |-> assigned_team, effort |-> effort,
     remaining_work |-> remaining_work, state |-> state,
     depends_on_features |-> dep_features, depends_on_stories |-> dep_stories]

\* the stories a sequence is drawn from: two stories of feature 1 for team A,
\* one given by the team's name and one by its id; a story without an effort
\* that depends on feature 1; an active story of team B that depends on
\* story 1; a story without a team; a story of a team nobody knows; a story
\* of team B, given by the team's id, that depends on feature 1 and on the
\* stories 3 and 1
StoryPool ==
    <<Story(1, 1, "A", Some(15), None, "new", <<>>, <<>>),
      Story(2, 1, "a", Some(10), None, "new", <<>>, <<>>),
      Story(3, 2, "A", None, None, "new", <<1>>, <<>>),
      Story(4, 2, "B", Some(30), Some(10), "active", <<>>, <<1>>),
      Story(5, 3, NoTeam, Some(10), None, "new", <<>>, <<>>),
      Story(6, 3, "Z", Some(10), Some(0), "active", <<>>, <<>>),
      Story(7, 3, "b", Some(5), None, "new", <<1>>, <<3, 1>>)>>

\* the sequences of at most MaxStories stories of the pool, none twice
StorySequences ==
    LET picks == UNION {[1..n -> 1..Len(StoryPool)] : n \in 0..MaxStories}
        injective == {p \in picks : \A i, j \in DOMAIN p : i # j => p[i] # p[j]}
    IN  {[i \in DOMAIN p |-> StoryPool[p[i]]] : p \in injective}

Feature(id, business_value, deadline_sprint, milestones, effort, stories) ==
    [id |-> id, business_value |-> business_value, deadline_sprint |-> deadline_sprint,
     milestones |-> milestones, effort |-> effort, cost_of_delay_x2 |-> None,
     wsjf_score |-> None,
     user_stories |-> [i \in 1..Len(stories) |-> StoryPool[stories[i]]]]

P1S5 == <<"P", "1", "S", "5">>

\* the groupings a feature list is drawn from, by id, each owning the stories
\* of the pool that name it.  Among them: a business value that is missing
\* or 0; a deadline that is missing, empty, without a digit or with two
\* groups of digits; milestones of which none or several carry a date;
\* groupings that tie on the whole key
FeatureVariants ==
    <<{Feature(1, Some(100), None, <<>>, Some(25), <<1, 2>>),
       Feature(1, None, Some(S3), <<>>, None, <<1, 2>>),
       Feature(1, Some(50), None, <<None, Some(20), Some(10)>>, Some(25), <<1, 2>>),
       Feature(1, Some(0), None, <<>>, Some(0), <<1, 2>>)},
      {Feature(2, Some(50), None, <<>>, Some(10), <<3, 4>>),
       Feature(2, Some(10), Some(S1), <<>>, Some(10), <<3, 4>>),
       Feature(2, Some(100), Some(P1S5), <<Some(10)>>, Some(10), <<3, 4>>),
       Feature(2, Some(100), Some(Alpha), <<None>>, Some(10), <<3, 4>>)},
      {Feature(3, Some(100), None, <<>>, Some(5), <<5, 6, 7>>),
       Feature(3, Some(200), Some(<<>>), <<Some(30)>>, Some(5), <<5, 6, 7>>),
       Feature(3, Some(75), Some(S3), <<>>, Some(5), <<5, 6, 7>>)}>>

\* the lists of groupings, no id twice, in every order
FeatureLists ==
    LET picks == UNION {[1..n -> 1..Len(FeatureVariants)] : n \in 0..Len(FeatureVariants)}
        injective == {p \in picks : \A i, j \in DOMAIN p : i # j => p[i] # p[j]}
    IN  UNION {{f \in [DOMAIN p -> UNION {FeatureVariants[g] : g \in 1..Len(FeatureVariants)}] :
                   \A i \in DOMAIN p : f[i] \in FeatureVariants[p[i]]} : p \in injective}

P1S1 == <<"P", "1", "S", "1">>
P1S2 == <<"P", "1", "S", "2">>

\* iteration lists whose names all give the same number: names without a
\* digit, and names that start with the same number
SameNumberIterationLists == {<<Alpha, Beta>>, <<P1S1, P1S2>>}

\* stories without dependencies: stories 1 and 2 of team A, the stories 5
\* and 6 that no agent takes, and three more of team A: one with effort 0,
\* one with effort 3 given by the team's id, an active one with 12 left
FreeStoryPool ==
    <<StoryPool[1], StoryPool[2], StoryPool[5], StoryPool[6],
      Story(8, 4, "A", Some(0), None, "new", <<>>, <<>>),
      Story(9, 4, "a", Some(3), None, "new", <<>>, <<>>),
      Story(10, 4, "A", Some(20), Some(12), "active", <<>>, <<>>)>>

\* the sequences of at most MaxStories of these stories, none twice
FreeStorySequences ==
    LET picks == UNION {[1..n -> 1..Len(FreeStoryPool)] : n \in 0..MaxStories}
        injective == {p \in picks : \A i, j \in DOMAIN p : i # j => p[i] # p[j]}
    IN  {[i \in DOMAIN p |-> FreeStoryPool[p[i]]] : p \in injective}

(***************************************************************************)
(* State                                                                   *)
(***************************************************************************)
VARIABLES
    features,               \* ProgramManager.features
    teams,                  \* ProgramManager.teams
    iterations,             \* ProgramManager.iterations
    max_rounds,             \* ProgramManager.max_rounds
    CAPACITY_BUFFER,        \* Config.CAPACITY_BUFFER, percent
    user_stories_sequence,  \* the argument of run_negotiation
    current_assignments,    \* agent -> TeamAgent.current_assignments
    assignments,            \* ProgramManager.assignments
    scheduled_stories,      \* ProgramManager.scheduled_stories
    scheduled_features,     \* ProgramManager.scheduled_features
    events,                 \* the events run_negotiation has yielded
    event_round,            \* history: the round each event was yielded in
    pc,                     \* where run_negotiation stands
    round_num,              \* run_negotiation's round_num
    story_index,            \* position of user_story in the sequence, from 1
    first_run               \* history: the outcome of an earlier run on the
                            \* same inputs, None when there was none

\* what no step of run_negotiation changes
inputs == <<teams, iterations, max_rounds, CAPACITY_BUFFER, user_stories_sequence,
            first_run, features>>
plan == <<current_assignments, assignments, scheduled_stories, scheduled_features>>
vars == <<teams, iterations, max_rounds, CAPACITY_BUFFER, user_stories_sequence,
          current_assignments, assignments, scheduled_stories, scheduled_features,
          events, event_round, pc, round_num, story_index, first_run, features>>

\* pc: "idle" after construction, "ranked" after prioritize_work,
\* "round" at the head of the round loop, "story" at the head of the
\* story loop, "proposal" suspended on the yielded ProposalEvent, "decision"
\* suspended on the yielded accepted/rejected event, "gap" suspended on the
\* yielded GapFillingStartEvent, "done" when the generator is exhausted.
Suspended == pc \in {"proposal", "decision", "gap"}

\* a ProgramManager without features whose run_negotiation is handed the
\* sequence
Init ==
    /\ features = <<>>
    /\ teams \in TeamLists
    /\ iterations \in IterationLists
    /\ max_rounds \in 0..MaxRounds
    /\ CAPACITY_BUFFER \in Buffers
    /\ user_stories_sequence \in StorySequences
    /\ current_assignments = [a \in 1..Len(teams) |-> <<>>]
    /\ assignments = <<>>
    /\ scheduled_stories = <<>>
    /\ scheduled_features = <<>>
    /\ events = <<>>
    /\ event_round = <<>>
    /\ pc = "round"
    /\ round_num = 1
    /\ story_index = 1
    /\ first_run = None

(***************************************************************************)
(* Events (the timestamp, the wall clock at creation, is left out)         *)
(***************************************************************************)
ProposalEvent(story_id, story_title, team_id, iteration, effort) ==
    [type |-> "Proposal", story_id |-> story_id, story_title |-> story_title,
     team_id |-> team_id, iteration |-> iteration, effort |-> effort]

AssignmentAcceptedEvent(story_id, team_id, iteration, effort, reason) ==
    [type |-> "AssignmentAccepted", story_id |-> story_id, team_id |-> team_id,
     iteration |-> iteration, effort |-> effort, reason |-> reason]

AssignmentRejectedEvent(story_id, team_id, reason, suggested_iteration) ==
    [type |-> "AssignmentRejected", story_id |-> story_id, team_id |-> team_id,
     reason |-> reason, suggested_iteration |-> suggested_iteration]

GapFillingStartEvent ==
    [type |-> "GapFillingStart", message |-> "Starting gap filling phase..."]

Yield(event) ==
    /\ events' = Append(events, event)
    /\ event_round' = Append(event_round, round_num)

(***************************************************************************)
(* ProgramManager.run_negotiation, one action per step of the generator    *)
(***************************************************************************)
user_story == user_stories_sequence[story_index]

AtStory == pc = "story" /\ story_index <= Len(user_stories_sequence)

team_agent == resolve_team_agent(teams, user_story.assigned_team)

\* the result of planning_strategy.find_slot for the current story:
\* `suggested_iteration, rejection_reason = self.planning_strategy.find_slot(...)`
slot ==
    Bind(team_agent,
         LAMBDA agent :
             find_slot(user_story, teams[agent], current_assignments[agent],
                       CAPACITY_BUFFER, iterations, scheduled_stories, scheduled_features))

\* variant: the range of rounds is one too long
BeginRound_one_more ==
    /\ pc = "round"
    /\ round_num <= max_rounds + 1
    /\ pc' = "story"
    /\ story_index' = 1
    /\ UNCHANGED <<inputs, plan, events, event_round, round_num>>

\* `for round_num in range(1, self.max_rounds + 1)`: one more round
BeginRound ==
    /\ pc = "round"
    /\ round_num <= max_rounds
    /\ pc' = "story"
    /\ story_index' = 1
    /\ UNCHANGED <<inputs, plan, events, event_round, round_num>>

\* variant: the loads are cleared at the end of a round
EndRound_clearing_loads ==
    /\ pc = "story"
    /\ story_index > Len(user_stories_sequence)
    /\ round_num' = round_num + 1
    /\ pc' = "round"
    /\ current_assignments' = [a \in 1..Len(teams) |-> <<>>]
    /\ UNCHANGED <<inputs, assignments, scheduled_stories, scheduled_features,
                   events, event_round, story_index>>

\* `for user_story in user_stories_sequence` is exhausted: the round ends
EndRound ==
    /\ pc = "story"
    /\ story_index > Len(user_stories_sequence)
    /\ round_num' = round_num + 1
    /\ pc' = "round"
    /\ UNCHANGED <<inputs, plan, events, event_round, story_index>>

\* variant: a story that was rejected before is passed over as well
SkipScheduled_or_rejected ==
    /\ AtStory
    /\ \/ user_story.id \in DOMAIN scheduled_stories
       \/ \E i \in 1..Len(events) :
              /\ events[i].type = "AssignmentRejected"
              /\ events[i].story_id = user_story.id
    /\ story_index' = story_index + 1
    /\ UNCHANGED <<inputs, plan, events, event_round, pc, round_num>>

\* `if user_story.id in self.scheduled_stories: continue`
SkipScheduled ==
    /\ AtStory
    /\ user_story.id \in DOMAIN scheduled_stories
    /\ story_index' = story_index + 1
    /\ UNCHANGED <<inputs, plan, events, event_round, pc, round_num>>

\* `if not assigned_team_id: continue`
SkipNoTeam ==
    /\ AtStory
    /\ user_story.id \notin DOMAIN scheduled_stories
    /\ user_story.assigned_team = NoTeam
    /\ story_index' = story_index + 1
    /\ UNCHANGED <<inputs, plan, events, event_round, pc, round_num>>

\* `if not team_agent: continue`
SkipNoAgent ==
    /\ AtStory
    /\ user_story.id \notin DOMAIN scheduled_stories
    /\ user_story.assigned_team # NoTeam
    /\ team_agent = 0
    /\ story_index' = story_index + 1
    /\ UNCHANGED <<inputs, plan, events, event_round, pc, round_num>>

\* variant: a story that is already scheduled is proposed like any other
Propose_scheduled_too ==
    /\ AtStory
    /\ user_story.assigned_team # NoTeam
    /\ team_agent # 0
    /\ Yield(ProposalEvent(user_story.id, user_story.title, user_story.assigned_team,
                           TBD, effort_or_default(user_story)))
    /\ pc' = "proposal"
    /\ UNCHANGED <<inputs, plan, round_num, story_index>>

\* `yield ProposalEvent(...)`
Propose ==
    /\ AtStory
    /\ user_story.id \notin DOMAIN scheduled_stories
    /\ user_story.assigned_team # NoTeam
    /\ team_agent # 0
    /\ Yield(ProposalEvent(user_story.id, user_story.title, user_story.assigned_team,
                           TBD, effort_or_default(user_story)))
    /\ pc' = "proposal"
    /\ UNCHANGED <<inputs, plan, round_num, story_index>>

\* variant: the team's ledger is not updated
_accept_assignment_without_ledger(story, team_id, iteration, agent) ==
    LET assignment == [user_story_id |-> story.id,
                       feature_id |-> story.feature_id,
                       team_id |-> team_id,
                       iteration |-> iteration,
                       effort |-> effort_or_default(story),
                       status |-> "accepted",
                       sequence_order |-> Len(assignments) + 1,
                       dependency_ready |-> TRUE]
    IN  /\ assignments' = Append(assignments, assignment)
        /\ scheduled_stories' = Put(scheduled_stories, story.id, iteration)
        /\ scheduled_features' =
               IF story.feature_id \notin DOMAIN scheduled_features
               THEN Put(scheduled_features, story.feature_id, iteration)
               ELSE scheduled_features
        /\ UNCHANGED current_assignments

\* variant: the team's load for the iteration is set to the story's effort
_accept_assignment_replacing_load(story, team_id, iteration, agent) ==
    LET assignment == [user_story_id |-> story.id,
                       feature_id |-> story.feature_id,
                       team_id |-> team_id,
                       iteration |-> iteration,
                       effort |-> effort_or_default(story),
                       status |-> "accepted",
                       sequence_order |-> Len(assignments) + 1,
                       dependency_ready |-> TRUE]
    IN  /\ assignments' = Append(assignments, assignment)
        /\ scheduled_stories' = Put(scheduled_stories, story.id, iteration)
        /\ scheduled_features' =
               IF story.feature_id \notin DOMAIN scheduled_features
               THEN Put(scheduled_features, story.feature_id, iteration)
               ELSE scheduled_features
        /\ current_assignments' =
               [current_assignments EXCEPT ![agent] = Put(@, iteration, assignment.effort)]

\* variant: the grouping's entry follows the latest accepted story
_accept_assignment_latest_feature_iteration(story, team_id, iteration, agent) ==
    LET assignment == [user_story_id |-> story.id,
                       feature_id |-> story.feature_id,
                       team_id |-> team_id,
                       iteration |-> iteration,
                       effort |-> effort_or_default(story),
                       status |-> "accepted",
                       sequence_order |-> Len(assignments) + 1,
                       dependency_ready |-> TRUE]
    IN  /\ assignments' = Append(assignments, assignment)
        /\ scheduled_stories' = Put(scheduled_stories, story.id, iteration)
        /\ scheduled_features' = Put(scheduled_features, story.feature_id, iteration)
        /\ current_assignments' =
               [current_assignments EXCEPT
                   ![agent] = Put(@, iteration, Get(@, iteration, 0) + assignment.effort)]

\* variant: the running counter starts at 0
_accept_assignment_counting_from_zero(story, team_id, iteration, agent) ==
    LET assignment == [user_story_id |-> story.id,
                       feature_id |-> story.feature_id,
                       team_id |-> team_id,
                       iteration |-> iteration,
                       effort |-> effort_or_default(story),
                       status |-> "accepted",
                       sequence_order |-> Len(assignments),
                       dependency_ready |-> TRUE]
    IN  /\ assignments' = Append(assignments, assignment)
        /\ scheduled_stories' = Put(scheduled_stories, story.id, iteration)
        /\ scheduled_features' =
               IF story.feature_id \notin DOMAIN scheduled_features
               THEN Put(scheduled_features, story.feature_id, iteration)
               ELSE scheduled_features
        /\ current_assignments' =
               [current_assignments EXCEPT
                   ![agent] = Put(@, iteration, Get(@, iteration, 0) + assignment.effort)]

\* ProgramManager._accept_assignment
_accept_assignment(story, team_id, iteration, agent) ==
    LET assignment == [user_story_id |-> story.id,
                       feature_id |-> story.feature_id,
                       team_id |-> team_id,
                       iteration |-> iteration,
                       effort |-> effort_or_default(story),
                       status |-> "accepted",
                       sequence_order |-> Len(assignments) + 1,
                       dependency_ready |-> TRUE]
    IN  /\ assignments' = Append(assignments, assignment)
        /\ scheduled_stories' = Put(scheduled_stories, story.id, iteration)
        /\ scheduled_features' =
               IF story.feature_id \notin DOMAIN scheduled_features
               THEN Put(scheduled_features, story.feature_id, iteration)
               ELSE scheduled_features
        /\ current_assignments' =
               [current_assignments EXCEPT
                   ![agent] = Put(@, iteration, Get(@, iteration, 0) + assignment.effort)]

\* variant: any iteration from the earliest start on that can take the story
Accept_in_any_fitting_iteration ==
    /\ pc = "proposal"
    /\ slot.iteration # None
    /\ \E i \in earliest_start_index(user_story, iterations, scheduled_stories,
                                      scheduled_features)..(Len(iterations) - 1) :
           /\ check_capacity_and_dependencies(
                  teams[team_agent], current_assignments[team_agent], CAPACITY_BUFFER,
                  user_story, Nth0(iterations, i), scheduled_stories,
                  scheduled_features).can_do
           /\ _accept_assignment(user_story, user_story.assigned_team,
                                 Nth0(iterations, i), team_agent)
           /\ Yield(AssignmentAcceptedEvent(user_story.id, user_story.assigned_team,
                                            Nth0(iterations, i),
                                            effort_or_default(user_story),
                                            "Capacity and dependencies met"))
    /\ pc' = "decision"
    /\ UNCHANGED <<inputs, round_num, story_index>>

\* find_slot found an iteration: accept, then `yield AssignmentAcceptedEvent(...)`
Accept ==
    /\ pc = "proposal"
    /\ \E found \in {slot} : \E agent \in {team_agent} :
           /\ found.iteration # None
           /\ _accept_assignment(user_story, user_story.assigned_team,
                                 found.iteration[1], agent)
           /\ Yield(AssignmentAcceptedEvent(user_story.id, user_story.assigned_team,
                                            found.iteration[1],
                                            effort_or_default(user_story),
                                            "Capacity and dependencies met"))
    /\ pc' = "decision"
    /\ UNCHANGED <<inputs, round_num, story_index>>

\* variant: the rejection names the team by the name of the resolved team
Reject_naming_resolved_team ==
    /\ pc = "proposal"
    /\ \E found \in {slot} :
           /\ found.iteration = None
           /\ Yield(AssignmentRejectedEvent(user_story.id, teams[team_agent].name,
                                            found.reason, None))
    /\ pc' = "decision"
    /\ UNCHANGED <<inputs, plan, round_num, story_index>>

\* find_slot found none: `yield AssignmentRejectedEvent(...)`
Reject ==
    /\ pc = "proposal"
    /\ \E found \in {slot} :
           /\ found.iteration = None
           /\ Yield(AssignmentRejectedEvent(user_story.id, user_story.assigned_team,
                                            found.reason, None))
    /\ pc' = "decision"
    /\ UNCHANGED <<inputs, plan, round_num, story_index>>

\* variant: a rejection ends the rounds
Resume_stopping_on_rejection ==
    /\ pc = "decision"
    /\ IF events[Len(events)].type = "AssignmentRejected"
       THEN /\ pc' = "round"
            /\ round_num' = max_rounds + 1
            /\ UNCHANGED story_index
       ELSE /\ pc' = "story"
            /\ story_index' = story_index + 1
            /\ UNCHANGED round_num
    /\ UNCHANGED <<inputs, plan, events, event_round>>

\* the consumer asks for the next event after a decision: on to the next story
Resume ==
    /\ pc = "decision"
    /\ pc' = "story"
    /\ story_index' = story_index + 1
    /\ UNCHANGED <<inputs, plan, events, event_round, round_num>>

\* the rounds are over: `yield GapFillingStartEvent()`
StartGapFilling ==
    /\ pc = "round"
    /\ round_num > max_rounds
    /\ Yield(GapFillingStartEvent)
    /\ pc' = "gap"
    /\ UNCHANGED <<inputs, plan, round_num, story_index>>

\* _fill_gaps_with_split_stories (`pass`), and the generator ends
_fill_gaps_with_split_stories ==
    /\ pc = "gap"
    /\ pc' = "done"
    /\ UNCHANGED <<inputs, plan, events, event_round, round_num, story_index>>

Next ==
    \/ BeginRound
    \/ EndRound
    \/ SkipScheduled
    \/ SkipNoTeam
    \/ SkipNoAgent
    \/ Propose
    \/ Accept
    \/ Reject
    \/ Resume
    \/ StartGapFilling
    \/ _fill_gaps_with_split_stories

Spec == Init /\ [][Next]_vars

\* the consumer keeps asking for the next event until the generator ends
FairSpec == Spec /\ WF_vars(Next)

\* A second ProgramManager is constructed from the same teams, iterations,
\* max_rounds, buffer and stories once the first run is over, and run in its
\* turn; the outcome of the first run is kept for comparison.
RunAgain ==
    /\ pc = "done"
    /\ first_run = None
    /\ first_run' = Some([assignments |-> assignments, events |-> events])
    /\ current_assignments' = [a \in 1..Len(teams) |-> <<>>]
    /\ assignments' = <<>>
    /\ scheduled_stories' = <<>>
    /\ scheduled_features' = <<>>
    /\ events' = <<>>
    /\ event_round' = <<>>
    /\ pc' = "round"
    /\ round_num' = 1
    /\ story_index' = 1
    /\ UNCHANGED <<teams, iterations, max_rounds, CAPACITY_BUFFER, user_stories_sequence,
                   features>>

NextTwice == Next \/ RunAgain

SpecTwice == Init /\ [][NextTwice]_vars

(***************************************************************************)
(* A run over stories that have no dependencies                            *)
(***************************************************************************)
InitFreeStories ==
    /\ features = <<>>
    /\ teams \in TeamLists
    /\ iterations \in IterationLists
    /\ max_rounds \in 0..MaxRounds
    /\ CAPACITY_BUFFER \in Buffers
    /\ user_stories_sequence \in FreeStorySequences
    /\ current_assignments = [a \in 1..Len(teams) |-> <<>>]
    /\ assignments = <<>>
    /\ scheduled_stories = <<>>
    /\ scheduled_features = <<>>
    /\ events = <<>>
    /\ event_round = <<>>
    /\ pc = "round"
    /\ round_num = 1
    /\ story_index = 1
    /\ first_run = None

SpecFreeStories == InitFreeStories /\ [][Next]_vars

(***************************************************************************)
(* A run over iterations whose names all give the same number              *)
(***************************************************************************)
InitSameNumber ==
    /\ features = <<>>
    /\ teams \in TeamLists
    /\ iterations \in SameNumberIterationLists
    /\ max_rounds \in 0..MaxRounds
    /\ CAPACITY_BUFFER \in Buffers
    /\ user_stories_sequence \in StorySequences
    /\ current_assignments = [a \in 1..Len(teams) |-> <<>>]
    /\ assignments = <<>>
    /\ scheduled_stories = <<>>
    /\ scheduled_features = <<>>
    /\ events = <<>>
    /\ event_round = <<>>
    /\ pc = "round"
    /\ round_num = 1
    /\ story_index = 1
    /\ first_run = None

\* the consumer keeps asking for the next event until the generator ends
FairSpecSameNumber == InitSameNumber /\ [][Next]_vars /\ WF_vars(Next)

(***************************************************************************)
(* Planning from the features: prioritize_work, then run_negotiation       *)
(* without a sequence, which takes the one build_sequence returns          *)
(***************************************************************************)
InitFromFeatures ==
    /\ features \in FeatureLists
    /\ teams = <<TeamAWithSprint, TeamB>>
    /\ iterations = <<S1, S2, S3>>
    /\ max_rounds \in 0..MaxRounds
    /\ CAPACITY_BUFFER \in Buffers
    /\ user_stories_sequence = <<>>
    /\ current_assignments = [a \in 1..Len(teams) |-> <<>>]
    /\ assignments = <<>>
    /\ scheduled_stories = <<>>
    /\ scheduled_features = <<>>
    /\ events = <<>>
    /\ event_round = <<>>
    /\ pc = "idle"
    /\ round_num = 1
    /\ story_index = 1
    /\ first_run = None

\* ProgramManager.prioritize_work
prioritize_work ==
    /\ pc = "idle"
    /\ features' = prioritize(features)
    /\ pc' = "ranked"
    /\ UNCHANGED <<teams, iterations, max_rounds, CAPACITY_BUFFER, user_stories_sequence,
                   first_run, plan, events, event_round, round_num, story_index>>

\* `if user_stories_sequence is None: user_stories_sequence = self.build_sequence()`
BuildSequence ==
    /\ pc \in {"idle", "ranked"}
    /\ user_stories_sequence' = build_sequence(features)
    /\ pc' = "round"
    /\ UNCHANGED <<teams, iterations, max_rounds, CAPACITY_BUFFER, features,
                   first_run, plan, events, event_round, round_num, story_index>>

NextFromFeatures == prioritize_work \/ BuildSequence \/ Next

SpecFromFeatures == InitFromFeatures /\ [][NextFromFeatures]_vars

(***************************************************************************)
(* Vocabulary of the properties                                            *)
(***************************************************************************)
Range(list) == {list[i] : i \in 1..Len(list)}

\* position of an iteration in the iteration list
ListIndex(iteration) == IndexOf(iterations, iteration)

\* the story of the sequence with the given id
StoryWithId(id) ==
    CHOOSE us \in Range(user_stories_sequence) : us.id = id

\* the team a team reference (a name or an id) stands for, 0 when none
TeamNamed(ref) ==
    IF \E t \in 1..Len(teams) : teams[t].name = ref \/ teams[t].id = ref
    THEN CHOOSE t \in 1..Len(teams) : teams[t].name = ref \/ teams[t].id = ref
    ELSE 0

HasResolvableTeam(us) == us.assigned_team # NoTeam /\ TeamNamed(us.assigned_team) # 0

RECURSIVE SumOf(_, _)
\* sum of f[i] over the finite set of indices I
SumOf(f, I) ==
    IF I = {} THEN 0
    ELSE LET i == CHOOSE j \in I : TRUE
         IN  f[i] + SumOf(f, I \ {i})

\* the assignments among the first n of the list that commit team t in
\* iteration it
CommittedBefore(t, it, n) ==
    {k \in 1..n : /\ TeamNamed(assignments[k].team_id) = t
                  /\ assignments[k].iteration = it}

CommittedEffort(t, it, n) ==
    SumOf([k \in 1..Len(assignments) |-> assignments[k].effort], CommittedBefore(t, it, n))

EventsOfType(type) == {i \in 1..Len(events) : events[i].type = type}

AcceptedStoryIds == {assignments[k].user_story_id : k \in 1..Len(assignments)}

(***************************************************************************)
(* C1  Capacity invariant: at every point of a run, for every team and     *)
(* every iteration, the efforts of the accepted assignments of that team   *)
(* in that iteration add up to at most capacity x (1 - buffer); and each   *)
(* accepted assignment's effort was at most capacity x (1 - buffer) minus  *)
(* the efforts accepted before it for the same team and iteration.         *)
(***************************************************************************)
CapacityInvariant ==
    /\ \A t \in 1..Len(teams) : \A it \in Range(iterations) :
           CommittedEffort(t, it, Len(assignments)) * 100
               <= capacity_of(teams[t], it) * (100 - CAPACITY_BUFFER)
    /\ \A k \in 1..Len(assignments) :
           LET t == TeamNamed(assignments[k].team_id)
               it == assignments[k].iteration
           IN  assignments[k].effort * 100
                   <= capacity_of(teams[t], it) * (100 - CAPACITY_BUFFER)
                      - CommittedEffort(t, it, k - 1) * 100

\* two stories share a team and an iteration, and a story without any
\* dependency was placed after the first iteration for lack of room
CapacityWitness ==
    /\ \E j, k \in 1..Len(assignments) :
           /\ j < k
           /\ TeamNamed(assignments[j].team_id) = TeamNamed(assignments[k].team_id)
           /\ assignments[j].iteration = assignments[k].iteration
    /\ \E k \in 1..Len(assignments) :
           LET us == StoryWithId(assignments[k].user_story_id)
           IN  /\ us.depends_on_features = <<>>
               /\ us.depends_on_stories = <<>>
               /\ ListIndex(assignments[k].iteration) > 0

\* a step in which a story is accepted: the assignment list grows by one
AcceptStep == Len(assignments') = Len(assignments) + 1

NewAssignment == assignments'[Len(assignments')]

IterationsDistinct ==
    \A i, j \in 1..Len(iterations) : i # j => iterations[i] # iterations[j]

(***************************************************************************)
(* C2  Grouping-dependency invariant: the iteration names being distinct,  *)
(* whenever a story is accepted every grouping-level dependency of the     *)
(* story already has an entry in scheduled_features, and that entry's      *)
(* iteration comes strictly earlier in the iteration list than the         *)
(* iteration the story is accepted in.                                     *)
(***************************************************************************)
GroupingDependencyStep ==
    (IterationsDistinct /\ AcceptStep) =>
        LET us == StoryWithId(NewAssignment.user_story_id)
        IN  \A i \in 1..Len(us.depends_on_features) :
                LET d == us.depends_on_features[i]
                IN  /\ d \in DOMAIN scheduled_features
                    /\ ListIndex(scheduled_features[d]) < ListIndex(NewAssignment.iteration)

GroupingDependencyInvariant == [][GroupingDependencyStep]_vars

\* a story with a grouping-level dependency has been accepted
GroupingDependencyWitness ==
    \E k \in 1..Len(assignments) :
        StoryWithId(assignments[k].user_story_id).depends_on_features # <<>>

(***************************************************************************)
(* C3  Story-dependency invariant: the iteration names being distinct,     *)
(* whenever a story is accepted every story-level dependency of the story  *)
(* already has an entry in scheduled_stories, and that entry's iteration   *)
(* is the iteration the story is accepted in or an earlier one of the      *)
(* list.                                                                   *)
(***************************************************************************)
StoryDependencyStep ==
    (IterationsDistinct /\ AcceptStep) =>
        LET us == StoryWithId(NewAssignment.user_story_id)
        IN  \A i \in 1..Len(us.depends_on_stories) :
                LET d == us.depends_on_stories[i]
                IN  /\ d \in DOMAIN scheduled_stories
                    /\ ListIndex(scheduled_stories[d]) <= ListIndex(NewAssignment.iteration)

StoryDependencyInvariant == [][StoryDependencyStep]_vars

\* a story with a story-level dependency has been accepted, in the very
\* iteration of its dependency
StoryDependencyWitness ==
    \E k \in 1..Len(assignments) :
        LET us == StoryWithId(assignments[k].user_story_id)
        IN  /\ us.depends_on_stories # <<>>
            /\ scheduled_stories[us.depends_on_stories[1]] = assignments[k].iteration

ResolvableStories == {us \in Range(user_stories_sequence) : HasResolvableTeam(us)}

TimesAccepted(us) ==
    Cardinality({k \in 1..Len(assignments) : assignments[k].user_story_id = us.id})

RejectedInRound(us, r) ==
    \E i \in EventsOfType("AssignmentRejected") :
        events[i].story_id = us.id /\ event_round[i] = r

(***************************************************************************)
(* C4  Coverage / no abort: when a run with max_rounds >= 1 has completed, *)
(* every story of the sequence with a resolvable team is either accepted   *)
(* exactly once or has an AssignmentRejected event in the final round, and *)
(* not both; so the accepted stories and the stories rejected in the final *)
(* round together number the stories with a resolvable team.               *)
(***************************************************************************)
Coverage ==
    (pc = "done" /\ max_rounds >= 1) =>
        /\ \A us \in ResolvableStories :
               /\ TimesAccepted(us) <= 1
               /\ (TimesAccepted(us) = 1) # RejectedInRound(us, max_rounds)
        /\ \A us \in Range(user_stories_sequence) \ ResolvableStories :
               /\ TimesAccepted(us) = 0
               /\ ~RejectedInRound(us, max_rounds)
        /\ Cardinality({us \in ResolvableStories : TimesAccepted(us) = 1})
             + Cardinality({us \in ResolvableStories : RejectedInRound(us, max_rounds)})
             = Cardinality(ResolvableStories)

\* a completed run in whose final round a story was rejected and a story
\* further down the sequence was accepted afterwards
CoverageWitness ==
    /\ pc = "done"
    /\ max_rounds >= 1
    /\ \E i \in EventsOfType("AssignmentRejected") :
       \E j \in EventsOfType("AssignmentAccepted") :
           /\ i < j
           /\ event_round[i] = max_rounds
           /\ event_round[j] = max_rounds

LastEvent == events[Len(events)]

(***************************************************************************)
(* C6  Per-story atomicity: wherever run_negotiation is suspended on a     *)
(* yielded event, scheduled_stories has exactly one entry per assignment,  *)
(* holding that assignment's iteration; scheduled_features has an entry    *)
(* for exactly the features owning an accepted story; every team ledger's  *)
(* load per iteration is the sum of the efforts accepted for that team and *)
(* iteration; and when the event is AssignmentAccepted for a story, the    *)
(* story is in the assignment list, both maps and the ledger.              *)
(***************************************************************************)
SuspensionConsistency ==
    Suspended =>
        /\ Cardinality(DOMAIN scheduled_stories) = Len(assignments)
        /\ \A k \in 1..Len(assignments) :
               /\ assignments[k].user_story_id \in DOMAIN scheduled_stories
               /\ scheduled_stories[assignments[k].user_story_id] = assignments[k].iteration
        /\ DOMAIN scheduled_features
               = {assignments[k].feature_id : k \in 1..Len(assignments)}
        /\ \A t \in 1..Len(teams) :
               /\ \A it \in Range(iterations) \cup DOMAIN current_assignments[t] :
                      Get(current_assignments[t], it, 0)
                          = CommittedEffort(t, it, Len(assignments))
               /\ DOMAIN current_assignments[t]
                      = {assignments[k].iteration :
                            k \in {j \in 1..Len(assignments) :
                                      TeamNamed(assignments[j].team_id) = t}}
        /\ (pc = "decision" /\ LastEvent.type = "AssignmentAccepted") =>
               /\ LastEvent.story_id \in AcceptedStoryIds
               /\ LastEvent.story_id \in DOMAIN scheduled_stories
               /\ StoryWithId(LastEvent.story_id).feature_id \in DOMAIN scheduled_features
               /\ LastEvent.iteration
                      \in DOMAIN current_assignments[TeamNamed(LastEvent.team_id)]

\* suspended on the AssignmentAccepted event of a second accepted story
SuspensionWitness ==
    /\ pc = "decision"
    /\ LastEvent.type = "AssignmentAccepted"
    /\ Len(assignments) >= 2

(***************************************************************************)
(* C7  Event protocol: in the emitted stream every Proposal is directly    *)
(* followed by one AssignmentAccepted or AssignmentRejected event for the  *)
(* same story and team (it is the last event only while the generator is   *)
(* suspended on it), and every AssignmentAccepted or AssignmentRejected    *)
(* event is directly preceded by the Proposal for that story and team.     *)
(***************************************************************************)
IsDecision(e) == e.type \in {"AssignmentAccepted", "AssignmentRejected"}

EventProtocol ==
    \A i \in 1..Len(events) :
        /\ events[i].type = "Proposal" =>
               IF i = Len(events)
               THEN pc = "proposal"
               ELSE /\ IsDecision(events[i + 1])
                    /\ events[i + 1].story_id = events[i].story_id
                    /\ events[i + 1].team_id = events[i].team_id
        /\ IsDecision(events[i]) =>
               /\ i > 1
               /\ events[i - 1].type = "Proposal"
               /\ events[i - 1].story_id = events[i].story_id
               /\ events[i - 1].team_id = events[i].team_id

\* a completed run that has emitted both kinds of decision, one of them for
\* a story that names its team by the team's id
EventProtocolWitness ==
    /\ pc = "done"
    /\ \E i \in EventsOfType("AssignmentAccepted") :
           \E t \in 1..Len(teams) : events[i].team_id = teams[t].id
    /\ EventsOfType("AssignmentRejected") # {}

(***************************************************************************)
(* C8  Termination: whatever the sequence and max_rounds, run_negotiation  *)
(* comes to its end; it has then made exactly max_rounds passes over the   *)
(* sequence and emitted at most max_rounds x |sequence| Proposal events;   *)
(* and GapFillingStart is emitted once, after all rounds, as the last      *)
(* event of the stream.                                                    *)
(***************************************************************************)
RunOutcome ==
    /\ pc = "done" =>
           /\ round_num - 1 = max_rounds
           /\ Cardinality(EventsOfType("Proposal"))
                  <= max_rounds * Len(user_stories_sequence)
           /\ EventsOfType("GapFillingStart") = {Len(events)}
    /\ EventsOfType("GapFillingStart") # {} =>
           /\ pc \in {"gap", "done"}
           /\ round_num > max_rounds
           /\ EventsOfType("GapFillingStart") = {Len(events)}

Termination == <>(pc = "done") /\ []RunOutcome

\* a completed run of two rounds in which a story was proposed in both
TerminationWitness ==
    /\ pc = "done"
    /\ max_rounds = 2
    /\ \E i, j \in EventsOfType("Proposal") :
           /\ i < j
           /\ events[i].story_id = events[j].story_id

(***************************************************************************)
(* C9  Silent skip: a story with no assigned team, or whose assigned team  *)
(* is no team's name or id, never appears in an event, in the assignment   *)
(* list or in scheduled_stories; the step that meets it changes neither    *)
(* the event stream, the assignment list, the two maps nor any ledger, and *)
(* moves on to the next story of the round.                                *)
(***************************************************************************)
NeverScheduled(us) ==
    /\ \A i \in 1..Len(events) :
           events[i].type # "GapFillingStart" => events[i].story_id # us.id
    /\ us.id \notin AcceptedStoryIds
    /\ us.id \notin DOMAIN scheduled_stories

SkipStep ==
    (AtStory /\ ~HasResolvableTeam(user_story)) =>
        /\ UNCHANGED <<assignments, scheduled_stories, scheduled_features,
                       current_assignments, events>>
        /\ pc' = "story"
        /\ story_index' = story_index + 1
        /\ round_num' = round_num

SilentSkip ==
    /\ [](\A us \in Range(user_stories_sequence) :
              ~HasResolvableTeam(us) => NeverScheduled(us))
    /\ [][SkipStep]_vars

\* a completed run of two rounds in which a story was accepted that comes
\* after a story without a team and a story of an unknown team
SilentSkipWitness ==
    /\ pc = "done"
    /\ max_rounds = 2
    /\ \E i, j, k \in 1..Len(user_stories_sequence) :
           /\ i < k
           /\ j < k
           /\ user_stories_sequence[i].assigned_team = NoTeam
           /\ user_stories_sequence[j].assigned_team # NoTeam
           /\ TeamNamed(user_stories_sequence[j].assigned_team) = 0
           /\ user_stories_sequence[k].id \in AcceptedStoryIds

(***************************************************************************)
(* C10  First-fit forward search: find_assignment_slot returns the         *)
(* iteration of lowest list index, at or after the start, that can_fit     *)
(* accepts, and the fixed reason with no iteration when there is none; so  *)
(* a proposed story is accepted, in the step that follows its Proposal, in *)
(* the first iteration from its earliest start on that can_fit accepts,    *)
(* and is rejected only when there is none.                                *)
(***************************************************************************)
\* the list indices from `from` on whose iteration can_fit accepts for the
\* current story
FittingIndices(from) ==
    {i \in from..(Len(iterations) - 1) :
        can_do_user_story(teams[team_agent], current_assignments[team_agent],
                          CAPACITY_BUFFER, user_story, Nth0(iterations, i),
                          scheduled_stories, scheduled_features).can_do}

Lowest(I) == CHOOSE i \in I : \A j \in I : i <= j

FirstFitResult ==
    pc = "proposal" =>
        \A start \in Range(iterations) :
            LET result == find_assignment_slot(
                              teams[team_agent], current_assignments[team_agent],
                              CAPACITY_BUFFER, user_story, start, iterations,
                              scheduled_stories, scheduled_features)
                fits == FittingIndices(ListIndex(start))
            IN  IF fits = {}
                THEN result = [iteration |-> None, reason |-> NoSlotReason]
                ELSE result.iteration = Some(Nth0(iterations, Lowest(fits)))

FirstFitStep ==
    pc = "proposal" =>
        LET fits == FittingIndices(earliest_start_index(
                        user_story, iterations, scheduled_stories, scheduled_features))
        IN  IF fits = {}
            THEN /\ events' = Append(events, events'[Len(events')])
                 /\ events'[Len(events')].type = "AssignmentRejected"
                 /\ UNCHANGED assignments
            ELSE /\ events' = Append(events, events'[Len(events')])
                 /\ events'[Len(events')].type = "AssignmentAccepted"
                 /\ events'[Len(events')].iteration = Nth0(iterations, Lowest(fits))
                 /\ AcceptStep
                 /\ NewAssignment.user_story_id = user_story.id
                 /\ NewAssignment.iteration = Nth0(iterations, Lowest(fits))

FirstFit == []FirstFitResult /\ [][FirstFitStep]_vars

\* Scenario A: one team of capacity 20, no buffer, a story of effort 15
\* placed in the first iteration and then a story of effort 10 placed in the
\* second, nothing rejected
FirstFitWitness ==
    /\ Len(teams) = 1
    /\ teams[1].capacity_per_iteration = 20
    /\ teams[1].capacity_per_sprint = <<>>
    /\ CAPACITY_BUFFER = 0
    /\ Len(iterations) >= 2
    /\ Len(assignments) = 2
    /\ assignments[1].effort = 15
    /\ assignments[1].iteration = iterations[1]
    /\ assignments[2].effort = 10
    /\ assignments[2].iteration = iterations[2]
    /\ EventsOfType("AssignmentRejected") = {}
    /\ pc = "done"

(***************************************************************************)
(* C5  Determinism: a second run from the same teams, stories, iteration   *)
(* list, max_rounds and buffer yields, event by event, the event sequence  *)
(* of the first run and, assignment by assignment, its assignment list;    *)
(* when it is over the two assignment lists and the two event sequences    *)
(* are identical.                                                          *)
(***************************************************************************)
IsPrefix(a, b) == Len(a) <= Len(b) /\ a = SubSeq(b, 1, Len(a))

Greatest(I) == CHOOSE i \in I : \A j \in I : i >= j

StartBounds(us) ==
    {0} \cup {ListIndex(scheduled_features[d]) + 1 :
                 d \in Range(us.depends_on_features) \cap DOMAIN scheduled_features}
        \cup {ListIndex(scheduled_stories[d]) :
                 d \in Range(us.depends_on_stories) \cap DOMAIN scheduled_stories}

EarliestStart ==
    \A us \in Range(user_stories_sequence) :
        earliest_start_index(us, iterations, scheduled_stories, scheduled_features)
            = Greatest(StartBounds(us))

\* Scenario B: a story is proposed whose grouping-level dependency is
\* scheduled at list index 1, and its start index is 2
EarliestStartWitness ==
    /\ pc = "proposal"
    /\ \E d \in Range(user_story.depends_on_features) \cap DOMAIN scheduled_features :
           ListIndex(scheduled_features[d]) = 1
    /\ earliest_start_index(user_story, iterations, scheduled_stories,
                            scheduled_features) = 2

(***************************************************************************)
(* C12  can_fit check order: for every story with a resolvable team and    *)
(* every iteration of the list, earlier meaning a smaller number in the    *)
(* iteration's name, as can_fit orders iterations: when some               *)
(* grouping-level dependency is missing from scheduled_features or is not  *)
(* in a strictly earlier iteration, can_fit rejects and the reason names   *)
(* exactly those dependency ids, whatever the story-level dependencies and *)
(* the capacity are; otherwise, when some story-level dependency is        *)
(* missing from scheduled_stories or is in a later iteration, can_fit      *)
(* rejects and the reason names exactly those story ids, whatever the      *)
(* capacity is; otherwise the capacity check decides.                      *)
(***************************************************************************)
AgentOf(us) == resolve_team_agent(teams, us.assigned_team)

\* can_fit of the story's team for the story and the iteration, now
Verdict(us, it) ==
    can_do_user_story(teams[AgentOf(us)], current_assignments[AgentOf(us)],
                      CAPACITY_BUFFER, us, it, scheduled_stories, scheduled_features)

LateFeatureDeps(us, it) ==
    {d \in Range(us.depends_on_features) :
        \/ d \notin DOMAIN scheduled_features
        \/ iteration_number(scheduled_features[d]) >= iteration_number(it)}

LateStoryDeps(us, it) ==
    {d \in Range(us.depends_on_stories) :
        \/ d \notin DOMAIN scheduled_stories
        \/ iteration_number(scheduled_stories[d]) > iteration_number(it)}

NamesExactly(reason, kind, ids) ==
    /\ reason.kind = kind
    /\ Range(reason.deps) = ids
    /\ Len(reason.deps) = Cardinality(ids)

CheckOrder ==
    \A us \in ResolvableStories : \A it \in Range(iterations) :
        IF LateFeatureDeps(us, it) # {}
        THEN /\ ~Verdict(us, it).can_do
             /\ NamesExactly(Verdict(us, it).reason, "waiting_for_features",
                             LateFeatureDeps(us, it))
        ELSE IF LateStoryDeps(us, it) # {}
        THEN /\ ~Verdict(us, it).can_do
             /\ NamesExactly(Verdict(us, it).reason, "waiting_for_stories",
                             LateStoryDeps(us, it))
        ELSE Verdict(us, it).reason.kind \in {"capacity_available", "no_capacity"}

\* the team's override for the iteration when its override map has an entry
\* with a total for it, the team's default otherwise
OverrideOrDefault(team, it) ==
    IF it \in DOMAIN team.capacity_per_sprint /\ team.capacity_per_sprint[it] # None
    THEN team.capacity_per_sprint[it][1]
    ELSE team.capacity_per_iteration

\* the capacity the team of the story has left in the iteration, times 100
RoomLeft(us, it) ==
    OverrideOrDefault(teams[AgentOf(us)], it) * (100 - CAPACITY_BUFFER)
        - CommittedEffort(AgentOf(us), it, Len(assignments)) * 100

\* a story has just been rejected for which, in one iteration, both kinds of
\* dependency fail and, in another without room for it, only one of its two
\* story-level dependencies does
CheckOrderWitness ==
    /\ pc = "decision"
    /\ LastEvent.type = "AssignmentRejected"
    /\ \E it \in Range(iterations) :
           /\ LateFeatureDeps(user_story, it) # {}
           /\ LateStoryDeps(user_story, it) # {}
    /\ \E it \in Range(iterations) :
           /\ LateFeatureDeps(user_story, it) = {}
           /\ Cardinality(LateStoryDeps(user_story, it)) = 1
           /\ Len(user_story.depends_on_stories) = 2
           /\ effort_or_default(user_story) * 100 > RoomLeft(user_story, it)

(***************************************************************************)
(* C13  Capacity check: for every story with a resolvable team and every   *)
(* iteration of the list for which both dependency checks pass, can_fit    *)
(* accepts exactly when effort <= capacity x (1 - buffer) - the load       *)
(* committed for that team and iteration, equality included; the capacity  *)
(* is the total of the team's override entry for the iteration when there  *)
(* is one, a total of 0 included, and the team's default otherwise.        *)
(***************************************************************************)
CapacityCheck ==
    \A us \in ResolvableStories : \A it \in Range(iterations) :
        (LateFeatureDeps(us, it) = {} /\ LateStoryDeps(us, it) = {}) =>
            (Verdict(us, it).can_do <=> effort_or_default(us) * 100 <= RoomLeft(us, it))

\* a story has just been accepted in an iteration that it fills exactly,
\* and its team has an override of 0 for another iteration where only the
\* capacity check keeps the story out
CapacityCheckWitness ==
    /\ pc = "decision"
    /\ LastEvent.type = "AssignmentAccepted"
    /\ RoomLeft(user_story, LastEvent.iteration) = 0
    /\ OverrideOrDefault(teams[team_agent], LastEvent.iteration) > 0
    /\ \E it \in DOMAIN teams[team_agent].capacity_per_sprint \cap Range(iterations) :
           /\ teams[team_agent].capacity_per_sprint[it] = Some(0)
           /\ teams[team_agent].capacity_per_iteration * (100 - CAPACITY_BUFFER)
                  >= effort_or_default(user_story) * 100
           /\ LateFeatureDeps(user_story, it) = {}
           /\ LateStoryDeps(user_story, it) = {}
           /\ ~Verdict(user_story, it).can_do

(***************************************************************************)
(* C14  Single-round completion, as the claim states it: every             *)
(* AssignmentAccepted event is emitted during round 1, and a story that    *)
(* was rejected in round 1 is not accepted in any later round.             *)
(***************************************************************************)
SingleRoundCompletion ==
    /\ \A i \in EventsOfType("AssignmentAccepted") : event_round[i] = 1
    /\ \A us \in Range(user_stories_sequence) :
           RejectedInRound(us, 1) => us.id \notin AcceptedStoryIds

(***************************************************************************)
(* C14, amended  A story, once accepted, is never proposed or accepted     *)
(* again; every AssignmentAccepted event of a round after the first is for *)
(* a story that each earlier round rejected; and no step of a round whose  *)
(* preceding round accepted no story changes the assignment list, the maps *)
(* or the ledgers.                                                         *)
(***************************************************************************)
AcceptedInRound(r) ==
    \E i \in EventsOfType("AssignmentAccepted") : event_round[i] = r

AcceptedOnce ==
    \A i \in EventsOfType("AssignmentAccepted") :
        /\ \A j \in (i + 1)..Len(events) :
               events[j].type # "GapFillingStart" => events[j].story_id # events[i].story_id
        /\ \A r \in 1..(event_round[i] - 1) :
               RejectedInRound(StoryWithId(events[i].story_id), r)

IdleRoundStep ==
    (round_num >= 2 /\ ~AcceptedInRound(round_num - 1)) => UNCHANGED plan

LaterRoundsOnlyRetry == []AcceptedOnce /\ [][IdleRoundStep]_vars

\* a run of two rounds is over in which a story rejected in round 1 was
\* accepted in round 2, and a story accepted in round 1 was passed over
LaterRoundsOnlyRetryWitness ==
    /\ pc = "done"
    /\ max_rounds = 2
    /\ AcceptedInRound(1)
    /\ \E i \in EventsOfType("AssignmentAccepted") :
           /\ event_round[i] = 2
           /\ RejectedInRound(StoryWithId(events[i].story_id), 1)

(***************************************************************************)
(* C15  Retry in the next round: a story with a resolvable team that is    *)
(* rejected in a round r < max_rounds while one of its dependencies is in  *)
(* neither map is proposed once in round r and once again in round r + 1;  *)
(* and when it is proposed in round r + 1 with every dependency scheduled  *)
(* and some iteration, from its earliest start on, where its dependencies  *)
(* are admissible (as can_fit orders iterations) and its team has room for *)
(* its effort, the step that follows accepts it.                           *)
(***************************************************************************)
\* the story was accepted before event i
AcceptedBefore(id, i) ==
    \E j \in 1..(i - 1) :
        events[j].type = "AssignmentAccepted" /\ events[j].story_id = id

\* some dependency of the story was in neither map when event i was emitted
DependencyMissingAt(us, i) ==
    \/ \E d \in Range(us.depends_on_stories) : ~AcceptedBefore(d, i)
    \/ \E d \in Range(us.depends_on_features) :
           \A j \in 1..(i - 1) :
               events[j].type = "AssignmentAccepted" =>
                   StoryWithId(events[j].story_id).feature_id # d

ProposalsInRound(us, r) ==
    {j \in EventsOfType("Proposal") : events[j].story_id = us.id /\ event_round[j] = r}

\* the rejections of the story in round r that met a missing dependency
BlockedRejections(us, r) ==
    {i \in EventsOfType("AssignmentRejected") :
        /\ events[i].story_id = us.id
        /\ event_round[i] = r
        /\ DependencyMissingAt(us, i)}

RetriedNextRound ==
    \A us \in ResolvableStories : \A r \in 1..max_rounds :
        BlockedRejections(us, r) # {} =>
            /\ Cardinality(ProposalsInRound(us, r)) = 1
            /\ (r < max_rounds /\ round_num > r + 1) =>
                   Cardinality(ProposalsInRound(us, r + 1)) = 1

Admissible(us, it) == LateFeatureDeps(us, it) = {} /\ LateStoryDeps(us, it) = {}

HasRoom(us, it) == effort_or_default(us) * 100 <= RoomLeft(us, it)

RetryAcceptStep ==
    (/\ pc = "proposal"
     /\ round_num >= 2
     /\ BlockedRejections(user_story, round_num - 1) # {}
     /\ \E i \in earliest_start_index(user_story, iterations, scheduled_stories,
                                       scheduled_features)..(Len(iterations) - 1) :
            /\ Admissible(user_story, Nth0(iterations, i))
            /\ HasRoom(user_story, Nth0(iterations, i)))
        => /\ AcceptStep
           /\ NewAssignment.user_story_id = user_story.id
           /\ events'[Len(events')].type = "AssignmentAccepted"
           /\ event_round'[Len(event_round')] = round_num

RetryNextRound == []RetriedNextRound /\ [][RetryAcceptStep]_vars

\* round 2 has just accepted a story that round 1 rejected while one of its
\* dependencies was in neither map
RetryNextRoundWitness ==
    /\ pc = "decision"
    /\ round_num = 2
    /\ LastEvent.type = "AssignmentAccepted"
    /\ BlockedRejections(user_story, 1) # {}

(***************************************************************************)
(* C18  Grouping dependency completes first: at the end of a run, for      *)
(* every accepted story S with a grouping-level dependency on grouping G,  *)
(* every accepted story owned by G is placed in an iteration whose list    *)
(* index is strictly smaller than the index of S's iteration.              *)
(***************************************************************************)
GroupingCompletesFirst ==
    pc = "done" =>
        \A k \in 1..Len(assignments) :
            \A d \in Range(StoryWithId(assignments[k].user_story_id).depends_on_features) :
                \A j \in 1..Len(assignments) :
                    assignments[j].feature_id = d =>
                        ListIndex(assignments[j].iteration)
                            < ListIndex(assignments[k].iteration)

(***************************************************************************)
(* C19  Structural exhaustion: when the earliest start computed for the    *)
(* proposed story is at or beyond the number of iterations, find_slot      *)
(* answers with no iteration and the reason that dependencies push the     *)
(* start beyond the available iterations, whichever team's ledger it is    *)
(* given; the step that follows emits the AssignmentRejected event with    *)
(* that reason and changes no ledger, map or assignment; and a story so    *)
(* rejected is never accepted, every later round rejecting it the same way.*)
(***************************************************************************)
Exhausted(us) ==
    earliest_start_index(us, iterations, scheduled_stories, scheduled_features)
        >= Len(iterations)

ExhaustionResult ==
    (pc = "proposal" /\ Exhausted(user_story)) =>
        \A a \in 1..Len(teams) :
            find_slot(user_story, teams[a], current_assignments[a], CAPACITY_BUFFER,
                      iterations, scheduled_stories, scheduled_features)
                = [iteration |-> None, reason |-> BeyondIterationsReason]

ExhaustedForGood ==
    \A i \in EventsOfType("AssignmentRejected") :
        events[i].reason = BeyondIterationsReason =>
            /\ events[i].story_id \notin AcceptedStoryIds
            /\ \A j \in (i + 1)..Len(events) :
                   (IsDecision(events[j]) /\ events[j].story_id = events[i].story_id) =>
                       /\ events[j].type = "AssignmentRejected"
                       /\ events[j].reason = BeyondIterationsReason

ExhaustionStep ==
    (pc = "proposal" /\ Exhausted(user_story)) =>
        /\ events' = Append(events, AssignmentRejectedEvent(
                          user_story.id, user_story.assigned_team,
                          BeyondIterationsReason, None))
        /\ UNCHANGED plan

StructuralExhaustion ==
    /\ [](ExhaustionResult /\ ExhaustedForGood)
    /\ [][ExhaustionStep]_vars

\* a run of two rounds over a non-empty iteration list has ended in which a
\* story whose grouping-level dependency is scheduled in the last iteration
\* was rejected for it in both rounds
StructuralExhaustionWitness ==
    /\ pc = "done"
    /\ max_rounds = 2
    /\ iterations # <<>>
    /\ \E i, j \in EventsOfType("AssignmentRejected") :
           /\ event_round[i] = 1
           /\ event_round[j] = 2
           /\ events[i].story_id = events[j].story_id
           /\ events[i].reason = BeyondIterationsReason
           /\ events[j].reason = BeyondIterationsReason
           /\ \E d \in Range(StoryWithId(events[i].story_id).depends_on_features)
                        \cap DOMAIN scheduled_features :
                  ListIndex(scheduled_features[d]) = Len(iterations) - 1

(***************************************************************************)
(* C20  Hint anchoring: when can_fit rejects a story on a dependency check *)
(* and none of the story's dependency ids of the failing level is in the   *)
(* corresponding map, the suggested iteration is null, whatever other      *)
(* entries the map holds.                                                  *)
(***************************************************************************)
Unanchored(us, it) ==
    \/ /\ Verdict(us, it).reason.kind = "waiting_for_features"
       /\ Range(us.depends_on_features) \cap DOMAIN scheduled_features = {}
    \/ /\ Verdict(us, it).reason.kind = "waiting_for_stories"
       /\ Range(us.depends_on_stories) \cap DOMAIN scheduled_stories = {}

HintNullWithoutAnchor ==
    \A us \in ResolvableStories : \A it \in Range(iterations) :
        Unanchored(us, it) => Verdict(us, it).suggested_iteration = None

(***************************************************************************)
(* C16  Priority order: prioritize returns the same groupings, ordered     *)
(* ascending by the key (earliest milestone instant, deadline number,      *)
(* minus cost of delay), where the cost of delay is the business value     *)
(* the grouping holds after the call times the urgency boost (2 when the   *)
(* deadline number is at most 2, 1.5 when at most 4, else 1), a grouping   *)
(* without a milestone date is infinitely late and one without a deadline  *)
(* has the number 999.  So a grouping with a milestone date precedes every *)
(* grouping without one, and of two groupings with neither milestone nor   *)
(* deadline the one with the higher business value comes first.            *)
(***************************************************************************)
RECURSIVE Pow10(_)
Pow10(n) == IF n = 0 THEN 1 ELSE 10 * Pow10(n - 1)

\* the digits of the deadline name, read as one decimal number
DeadlineNumber(f) ==
    LET name == IF f.deadline_sprint = None THEN <<>> ELSE f.deadline_sprint[1]
        at == {i \in 1..Len(name) : IsDigit(name[i])}
    IN  IF at = {} THEN 999
        ELSE SumOf([i \in at |-> DigitVal(name[i]) * Pow10(Cardinality({j \in at : j > i}))], at)

MilestoneDates(f) == {m[1] : m \in Range(f.milestones) \ {None}}

\* twice the urgency boost
BoostTimesTwo(f) ==
    IF DeadlineNumber(f) <= 2 THEN 4 ELSE IF DeadlineNumber(f) <= 4 THEN 3 ELSE 2

CostOfDelayTimesTwo(f) == f.business_value[1] * BoostTimesTwo(f)

\* the key of f is not greater than the key of g
KeyAtMost(f, g) ==
    LET df == MilestoneDates(f)
        dg == MilestoneDates(g)
    IN  IF df # {} /\ dg = {} THEN TRUE
        ELSE IF df = {} /\ dg # {} THEN FALSE
        ELSE IF df # {} /\ Lowest(df) # Lowest(dg) THEN Lowest(df) < Lowest(dg)
        ELSE IF DeadlineNumber(f) # DeadlineNumber(g) THEN DeadlineNumber(f) < DeadlineNumber(g)
        ELSE CostOfDelayTimesTwo(f) >= CostOfDelayTimesTwo(g)

SameGrouping(f, g) ==
    /\ f.id = g.id
    /\ f.deadline_sprint = g.deadline_sprint
    /\ f.milestones = g.milestones
    /\ f.effort = g.effort
    /\ f.user_stories = g.user_stories

PriorityOrderStep ==
    pc = "idle" /\ pc' = "ranked" =>
        /\ Len(features') = Len(features)
        /\ \A i \in 1..Len(features) :
               Cardinality({j \in 1..Len(features') : SameGrouping(features[i], features'[j])}) = 1
        /\ \A j \in 1..Len(features') :
               /\ features'[j].business_value # None
               /\ features'[j].cost_of_delay_x2 = Some(CostOfDelayTimesTwo(features'[j]))
        /\ \A i, j \in 1..Len(features') :
               i < j =>
                   /\ KeyAtMost(features'[i], features'[j])
                   /\ MilestoneDates(features'[i]) = {} => MilestoneDates(features'[j]) = {}
                   /\ /\ MilestoneDates(features'[i]) = {}
                      /\ MilestoneDates(features'[j]) = {}
                      /\ features'[i].deadline_sprint = None
                      /\ features'[j].deadline_sprint = None
                      => features'[i].business_value[1] >= features'[j].business_value[1]

PriorityOrder == [][PriorityOrderStep]_vars

\* three groupings were ranked: one with a milestone date leads one without
\* that has the higher cost of delay, which leads one of lower business
\* value, neither having a deadline
PriorityOrderWitness ==
    /\ pc = "ranked"
    /\ Len(features) = 3
    /\ MilestoneDates(features[1]) # {}
    /\ MilestoneDates(features[2]) = {}
    /\ MilestoneDates(features[3]) = {}
    /\ features[2].deadline_sprint = None
    /\ features[3].deadline_sprint = None
    /\ features[1].cost_of_delay_x2[1] < features[2].cost_of_delay_x2[1]
    /\ features[2].business_value[1] > features[3].business_value[1]

(***************************************************************************)
(* C17  Sequence construction: build_sequence returns the stories of the   *)
(* groupings, grouping after grouping in the current grouping order, each  *)
(* grouping's stories in their own order, none dropped and none added; so  *)
(* every story of a higher-ranked grouping precedes every story of a       *)
(* lower-ranked one, and the stories proposed within a round are proposed  *)
(* in the order of the sequence.                                           *)
(***************************************************************************)
\* the number of stories of the groupings ranked before the g-th
StoriesBefore(list, g) ==
    SumOf([h \in 1..(g - 1) |-> Len(list[h].user_stories)], 1..(g - 1))

\* the rank of the grouping that owns the story
RankOfOwner(list, us) ==
    Lowest({g \in 1..Len(list) : us \in Range(list[g].user_stories)})

SequenceConstructionStep ==
    pc \in {"idle", "ranked"} /\ pc' = "round" =>
        /\ features' = features
        /\ Len(user_stories_sequence') = StoriesBefore(features, Len(features) + 1)
        /\ \A g \in 1..Len(features) : \A k \in 1..Len(features[g].user_stories) :
               user_stories_sequence'[StoriesBefore(features, g) + k] = features[g].user_stories[k]
        /\ \A i, j \in 1..Len(user_stories_sequence') :
               i < j => RankOfOwner(features, user_stories_sequence'[i])
                            <= RankOfOwner(features, user_stories_sequence'[j])

PositionInSequence(id) ==
    Lowest({k \in 1..Len(user_stories_sequence) : user_stories_sequence[k].id = id})

ProposedInSequenceOrder ==
    \A i, j \in EventsOfType("Proposal") :
        i < j /\ event_round[i] = event_round[j] =>
            PositionInSequence(events[i].story_id) < PositionInSequence(events[j].story_id)

SequenceConstruction == []ProposedInSequenceOrder /\ [][SequenceConstructionStep]_vars

\* a run from three ranked groupings, the first of which was not first in
\* the input, proposed stories of two groupings in one round
SequenceConstructionWitness ==
    /\ pc = "done"
    /\ Len(features) = 3
    /\ features[1].id # 1
    /\ features[1].cost_of_delay_x2 # None
    /\ Len(user_stories_sequence) = 7
    /\ \E i, j \in EventsOfType("Proposal") :
           /\ i < j
           /\ event_round[i] = event_round[j]
           /\ RankOfOwner(features, StoryWithId(events[i].story_id))
                  < RankOfOwner(features, StoryWithId(events[j].story_id))

(***************************************************************************)
(* C21  Ledger mutation frame: a team's committed load changes only in     *)
(* the acceptance step, where the load of the accepted story's team for    *)
(* the accepted iteration grows by exactly the story's effort and every    *)
(* other (team, iteration) load stays as it is; every other step (the      *)
(* checks, Proposal emission, rejection, skipping) leaves every ledger,    *)
(* both resolution maps and the assignment list unchanged; and no load     *)
(* ever decreases.                                                         *)
(***************************************************************************)
\* the story's effort as planning takes it: the remaining work of an active
\* story when it has one, else the effort; 5 when that is absent or 0
PlannedEffort(us) ==
    LET given == IF us.state = "active" /\ us.remaining_work # None
                 THEN us.remaining_work
                 ELSE us.effort
    IN  IF given = None \/ given = Some(0) THEN 5 ELSE given[1]

LedgerNames == Range(iterations) \cup UNION {DOMAIN current_assignments[t] : t \in 1..Len(teams)}

Load(ledgers, t, it) == IF it \in DOMAIN ledgers[t] THEN ledgers[t][it] ELSE 0

AcceptanceStep ==
    /\ pc = "proposal"
    /\ pc' = "decision"
    /\ events'[Len(events')].type = "AssignmentAccepted"

LedgerFrameStep ==
    /\ AcceptanceStep =>
           LET accepted == events'[Len(events')]
               us == StoryWithId(accepted.story_id)
           IN  /\ us = user_stories_sequence[story_index]
               /\ \A t \in 1..Len(teams) :
                      /\ DOMAIN current_assignments[t] \subseteq DOMAIN current_assignments'[t]
                      /\ \A it \in LedgerNames \cup {accepted.iteration} :
                             Load(current_assignments', t, it) =
                                 Load(current_assignments, t, it)
                                 + (IF t = TeamNamed(us.assigned_team) /\ it = accepted.iteration
                                    THEN PlannedEffort(us)
                                    ELSE 0)
    /\ ~AcceptanceStep => UNCHANGED plan
    /\ \A t \in 1..Len(teams) : \A it \in LedgerNames :
           Load(current_assignments', t, it) >= Load(current_assignments, t, it)

LedgerFrame == [][LedgerFrameStep]_vars

\* an acceptance has just raised a load that already stood above 0
LedgerFrameWitness ==
    /\ pc = "decision"
    /\ events[Len(events)].type = "AssignmentAccepted"
    /\ LET accepted == events[Len(events)]
           t == TeamNamed(accepted.team_id)
       IN  Load(current_assignments, t, accepted.iteration) > accepted.effort

(***************************************************************************)
(* C22  Write-once resolution maps: a grouping's entry in the grouping map *)
(* is created when the first of its stories is accepted, equals that       *)
(* story's iteration, and is not changed when other stories of the         *)
(* grouping are accepted later, in whatever iteration; a story's entry in  *)
(* the story map is never changed or removed either.                       *)
(***************************************************************************)
\* every entry of the map is an entry of the map after the step
Kept(before, after) ==
    \A k \in DOMAIN before : k \in DOMAIN after /\ after[k] = before[k]

AssignmentsOfGrouping(g) == {k \in 1..Len(assignments) : assignments[k].feature_id = g}

WriteOnceState ==
    /\ DOMAIN scheduled_features = {assignments[k].feature_id : k \in 1..Len(assignments)}
    /\ \A g \in DOMAIN scheduled_features :
           scheduled_features[g] = assignments[Lowest(AssignmentsOfGrouping(g))].iteration
    /\ DOMAIN scheduled_stories = AcceptedStoryIds
    /\ \A k \in 1..Len(assignments) :
           scheduled_stories[assignments[k].user_story_id] = assignments[k].iteration

WriteOnceStep ==
    /\ Kept(scheduled_features, scheduled_features')
    /\ Kept(scheduled_stories, scheduled_stories')
    /\ AcceptStep =>
           /\ DOMAIN scheduled_features' = DOMAIN scheduled_features \cup {NewAssignment.feature_id}
           /\ DOMAIN scheduled_stories' = DOMAIN scheduled_stories \cup {NewAssignment.user_story_id}
           /\ NewAssignment.feature_id \notin DOMAIN scheduled_features =>
                  scheduled_features'[NewAssignment.feature_id] = NewAssignment.iteration

WriteOnceMaps == []WriteOnceState /\ [][WriteOnceStep]_vars

\* a grouping has two accepted stories, the second in an iteration listed
\* before the first one's, and the grouping's entry is the first one's
WriteOnceMapsWitness ==
    \E k, l \in 1..Len(assignments) :
        /\ k < l
        /\ assignments[k].feature_id = assignments[l].feature_id
        /\ k = Lowest(AssignmentsOfGrouping(assignments[k].feature_id))
        /\ ListIndex(assignments[l].iteration) < ListIndex(assignments[k].iteration)
        /\ scheduled_features[assignments[k].feature_id] = assignments[k].iteration

(***************************************************************************)
(* C23  Assignment records: the assignment list holds at most one          *)
(* assignment per story id; every assignment has status accepted and       *)
(* dependency_ready true; the k-th assignment has sequence number k; no    *)
(* step modifies or removes an assignment that exists; and a story that    *)
(* was accepted is never proposed again.                                   *)
(***************************************************************************)
AssignmentRecordsState ==
    /\ \A k, l \in 1..Len(assignments) :
           assignments[k].user_story_id = assignments[l].user_story_id => k = l
    /\ \A k \in 1..Len(assignments) :
           /\ assignments[k].status = "accepted"
           /\ assignments[k].dependency_ready = TRUE
           /\ assignments[k].sequence_order = k
    /\ \A i \in EventsOfType("AssignmentAccepted") : \A j \in EventsOfType("Proposal") :
           events[i].story_id = events[j].story_id => j < i

AssignmentRecordsStep ==
    /\ Len(assignments') >= Len(assignments)
    /\ \A k \in 1..Len(assignments) : assignments'[k] = assignments[k]

AssignmentRecords == []AssignmentRecordsState /\ [][AssignmentRecordsStep]_vars

\* a run of two rounds ended with three assignments, the last of them made
\* in the second round
AssignmentRecordsWitness ==
    /\ pc = "done"
    /\ Len(assignments) = 3
    /\ \E i \in EventsOfType("AssignmentAccepted") :
           /\ event_round[i] = 2
           /\ events[i].story_id = assignments[3].user_story_id

(***************************************************************************)
(* C24  Business-value default: prioritize sets a grouping's business      *)
(* value to 100 only when the grouping has none; a business value that is  *)
(* present, 0 included, is left as it is and is the value the cost of      *)
(* delay is computed from.                                                 *)
(***************************************************************************)
BusinessValueDefaultStep ==
    pc = "idle" /\ pc' = "ranked" =>
        \A i \in 1..Len(features) : \E j \in 1..Len(features') :
            /\ SameGrouping(features[i], features'[j])
            /\ features'[j].business_value =
                   (IF features[i].business_value = None
                    THEN Some(100)
                    ELSE features[i].business_value)
            /\ features'[j].cost_of_delay_x2 =
                   Some((IF features[i].business_value = None
                         THEN 100
                         ELSE features[i].business_value[1]) * BoostTimesTwo(features[i]))

BusinessValueDefault == [][BusinessValueDefaultStep]_vars

(***************************************************************************)
(* C25  Sentinel comparison: when no iteration name contains a digit, a    *)
(* direct can_fit call passes the story-dependency check for every         *)
(* scheduled story-level dependency, whatever the list positions of the    *)
(* two iterations; so it accepts, capacity permitting, a story whose       *)
(* story-level dependency is mapped to an iteration listed later.          *)
(***************************************************************************)
NoDigit(name) == \A i \in 1..Len(name) : ~IsDigit(name[i])

DigitlessIterations == iterations # <<>> /\ \A it \in Range(iterations) : NoDigit(it)

StoryDepsScheduled(us) == Range(us.depends_on_stories) \subseteq DOMAIN scheduled_stories

SentinelComparison ==
    DigitlessIterations =>
        \A us \in ResolvableStories : \A it \in Range(iterations) :
            /\ StoryDepsScheduled(us) => Verdict(us, it).reason.kind # "waiting_for_stories"
            /\ /\ us.depends_on_features = <<>>
               /\ StoryDepsScheduled(us)
               /\ PlannedEffort(us) * 100 <= RoomLeft(us, it)
               => Verdict(us, it).can_do

\* can_fit accepts a story for an iteration listed before the one its
\* story-level dependency is mapped to
SentinelComparisonWitness ==
    /\ DigitlessIterations
    /\ \E us \in ResolvableStories : \E it \in Range(iterations) :
           /\ Verdict(us, it).can_do
           /\ \E dep \in Range(us.depends_on_stories) :
                  /\ dep \in DOMAIN scheduled_stories
                  /\ ListIndex(scheduled_stories[dep]) > ListIndex(it)

(***************************************************************************)
(* C26  Shared ledger per team: a story whose assigned team is given by    *)
(* the team's id and a story whose assigned team is given by the same      *)
(* team's name are checked against and committed to one ledger, the        *)
(* team's, so that their efforts count together against the team's         *)
(* capacity per iteration.                                                 *)
(***************************************************************************)
SharedLedger ==
    /\ \A us \in ResolvableStories : AgentOf(us) = TeamNamed(us.assigned_team)
    /\ \A t \in 1..Len(teams) : \A it \in LedgerNames :
           /\ Load(current_assignments, t, it) = CommittedEffort(t, it, Len(assignments))
           /\ Load(current_assignments, t, it) * 100
                  <= OverrideOrDefault(teams[t], it) * (100 - CAPACITY_BUFFER)

\* a team's load for an iteration is made of a story that names the team by
\* its name and a story that names it by its id
SharedLedgerWitness ==
    \E k, l \in 1..Len(assignments) :
        /\ assignments[k].iteration = assignments[l].iteration
        /\ \E t \in 1..Len(teams) :
               /\ assignments[k].team_id = teams[t].name
               /\ assignments[l].team_id = teams[t].id
               /\ teams[t].id # teams[t].name
               /\ Load(current_assignments, t, assignments[k].iteration) =
                      assignments[k].effort + assignments[l].effort

(***************************************************************************)
(* C27  Only new dependency resolutions unblock a story: a story accepted  *)
(* in a round r > 1 has a dependency, story-level or grouping-level, whose *)
(* entry in the resolution map was created after the story's rejection in  *)
(* round r - 1; so a story without dependencies that is rejected in round  *)
(* 1 is never accepted and is rejected in every later round.               *)
(***************************************************************************)
\* the event with which the story, or the grouping, entered its map
StoryEntryEvent(id) ==
    {k \in EventsOfType("AssignmentAccepted") : events[k].story_id = id}

GroupingEntryEvent(g) ==
    LET accepted == {k \in EventsOfType("AssignmentAccepted") :
                        StoryWithId(events[k].story_id).feature_id = g}
    IN  IF accepted = {} THEN {} ELSE {Lowest(accepted)}

EntriesOfDependencies(us) ==
    UNION ({StoryEntryEvent(d) : d \in Range(us.depends_on_stories)}
           \cup {GroupingEntryEvent(g) : g \in Range(us.depends_on_features)})

UnblockedByNewEntry ==
    \A i \in EventsOfType("AssignmentAccepted") :
        event_round[i] > 1 =>
            \E j \in EventsOfType("AssignmentRejected") :
                /\ events[j].story_id = events[i].story_id
                /\ event_round[j] = event_round[i] - 1
                /\ \E k \in EntriesOfDependencies(StoryWithId(events[i].story_id)) :
                       j < k /\ k < i

FreeOfDependencies(us) == us.depends_on_stories = <<>> /\ us.depends_on_features = <<>>

RejectedForGood ==
    \A us \in Range(user_stories_sequence) :
        FreeOfDependencies(us) /\ RejectedInRound(us, 1) =>
            /\ us.id \notin AcceptedStoryIds
            /\ \A r \in 2..max_rounds :
                   r < round_num \/ pc \in {"gap", "done"} => RejectedInRound(us, r)

OnlyNewResolutionsUnblock == UnblockedByNewEntry /\ RejectedForGood

\* a story was accepted in the second round, its dependency having entered
\* the map after the story's rejection in the first
OnlyNewResolutionsUnblockWitness ==
    /\ pc = "done"
    /\ \E i \in EventsOfType("AssignmentAccepted") :
           /\ event_round[i] = 2
           /\ \E j \in EventsOfType("AssignmentRejected") :
                  /\ events[j].story_id = events[i].story_id
                  /\ event_round[j] = 1
                  /\ \E k \in EntriesOfDependencies(StoryWithId(events[i].story_id)) :
                         j < k /\ event_round[k] = 1

(***************************************************************************)
(* C28  Priority monotonicity within a team: of two stories of the same    *)
(* team that have no dependencies, where the one later in the sequence     *)
(* has an effort at least as great as the earlier one's, the later one is  *)
(* never placed in an iteration listed before the earlier one's, and is    *)
(* rejected whenever the earlier one was rejected.                         *)
(* As stated, the efforts compared are the stories' own (the remaining     *)
(* work of an active story when present).                                  *)
(***************************************************************************)
\* the story's own effort: the remaining work of an active story when it
\* has one, else the effort
OwnEffort(us) ==
    IF us.state = "active" /\ us.remaining_work # None THEN us.remaining_work ELSE us.effort

\* the pairs (k, l) of positions of the sequence the claim is about, given
\* how the efforts of a pair are compared
SameTeamPairs(AtLeast(_, _)) ==
    {p \in (1..Len(user_stories_sequence)) \X (1..Len(user_stories_sequence)) :
        /\ p[1] < p[2]
        /\ HasResolvableTeam(user_stories_sequence[p[1]])
        /\ HasResolvableTeam(user_stories_sequence[p[2]])
        /\ TeamNamed(user_stories_sequence[p[1]].assigned_team)
               = TeamNamed(user_stories_sequence[p[2]].assigned_team)
        /\ FreeOfDependencies(user_stories_sequence[p[1]])
        /\ FreeOfDependencies(user_stories_sequence[p[2]])
        /\ AtLeast(user_stories_sequence[p[2]], user_stories_sequence[p[1]])}

OwnEffortAtLeast(later, earlier) ==
    /\ OwnEffort(later) # None
    /\ OwnEffort(earlier) # None
    /\ OwnEffort(later)[1] >= OwnEffort(earlier)[1]

PlannedEffortAtLeast(later, earlier) == PlannedEffort(later) >= PlannedEffort(earlier)

\* the later story of the pair is in no iteration listed before the earlier
\* one's, is not accepted when the earlier one was rejected, and is rejected
\* in every finished round that rejected the earlier one
Monotone(p) ==
    LET earlier == user_stories_sequence[p[1]]
        later == user_stories_sequence[p[2]]
    IN  /\ earlier.id \in DOMAIN scheduled_stories /\ later.id \in DOMAIN scheduled_stories
            => ListIndex(scheduled_stories[later.id]) >= ListIndex(scheduled_stories[earlier.id])
        /\ (\E r \in 1..max_rounds : RejectedInRound(earlier, r))
            => later.id \notin DOMAIN scheduled_stories
        /\ \A r \in 1..max_rounds :
               /\ RejectedInRound(earlier, r)
               /\ r < round_num \/ pc \in {"gap", "done"}
               => RejectedInRound(later, r)

PriorityMonotonicityOwnEffort == \A p \in SameTeamPairs(OwnEffortAtLeast) : Monotone(p)

\* the same with the efforts compared as planning takes them: 5 in place of
\* an effort that is absent or 0
PriorityMonotonicity == \A p \in SameTeamPairs(PlannedEffortAtLeast) : Monotone(p)

\* a finished run placed the later story of such a pair in an iteration
\* listed after the earlier one's, the earlier one being a story of effort 0
\* planned with 5, and the team being named by name in one and by id in the
\* other
PriorityMonotonicityWitness ==
    /\ pc = "done"
    /\ \E p \in SameTeamPairs(PlannedEffortAtLeast) :
           LET earlier == user_stories_sequence[p[1]]
               later == user_stories_sequence[p[2]]
           IN  /\ earlier.id \in DOMAIN scheduled_stories
               /\ later.id \in DOMAIN scheduled_stories
               /\ ListIndex(scheduled_stories[later.id]) > ListIndex(scheduled_stories[earlier.id])
               /\ earlier.effort = Some(0)
               /\ earlier.assigned_team # later.assigned_team

(***************************************************************************)
(* C29  Effort consistency: for every accepted story the effort tested in  *)
(* the capacity check, the effort stored in the assignment, the amount     *)
(* added to the team's ledger and the effort reported in the Proposal and  *)
(* AssignmentAccepted events are one value: the story's effort (the        *)
(* remaining work of an active story when present), or 5 when that is      *)
(* absent or 0.                                                            *)
(***************************************************************************)
EffortConsistencyState ==
    /\ \A k \in 1..Len(assignments) :
           assignments[k].effort = PlannedEffort(StoryWithId(assignments[k].user_story_id))
    /\ \A i \in EventsOfType("Proposal") \cup EventsOfType("AssignmentAccepted") :
           events[i].effort = PlannedEffort(StoryWithId(events[i].story_id))
    /\ \A t \in 1..Len(teams) : \A it \in LedgerNames :
           Load(current_assignments, t, it) =
               SumOf([k \in 1..Len(assignments) |->
                          PlannedEffort(StoryWithId(assignments[k].user_story_id))],
                     CommittedBefore(t, it, Len(assignments)))

\* the acceptance took the first iteration, from the earliest start on and
\* with the dependencies in place, in which the value fits into what the
\* team has left
EffortConsistencyStep ==
    AcceptanceStep =>
        LET us == user_stories_sequence[story_index]
            at == ListIndex(NewAssignment.iteration)
        IN  /\ PlannedEffort(us) * 100 <= RoomLeft(us, NewAssignment.iteration)
            /\ \A i \in Greatest(StartBounds(us))..(at - 1) :
                   /\ LateFeatureDeps(us, Nth0(iterations, i)) = {}
                   /\ LateStoryDeps(us, Nth0(iterations, i)) = {}
                   => PlannedEffort(us) * 100 > RoomLeft(us, Nth0(iterations, i))
            /\ Load(current_assignments', TeamNamed(us.assigned_team), NewAssignment.iteration)
                   - Load(current_assignments, TeamNamed(us.assigned_team), NewAssignment.iteration)
                   = NewAssignment.effort
            /\ events'[Len(events')].effort = NewAssignment.effort
            /\ events[Len(events)].effort = NewAssignment.effort

FirstDigits(name) ==
    LET at == {i \in 1..Len(name) : IsDigit(name[i])}
    IN  IF at = {} THEN <<>>
        ELSE LET first == Lowest(at)
                 last == Greatest({j \in first..Len(name) : \A i \in first..j : i \in at})
             IN  SubSeq(name, first, last)

SameNumberNames == \A a, b \in Range(iterations) : FirstDigits(a) = FirstDigits(b)

RoundFinished(r) == r < round_num \/ pc \in {"gap", "done"}

BlockedByGrouping ==
    \A us \in Range(user_stories_sequence) :
        us.depends_on_features # <<>> =>
            /\ us.id \notin DOMAIN scheduled_stories
            /\ us.id \notin AcceptedStoryIds
            /\ \A r \in 1..max_rounds :
                   RoundFinished(r) /\ HasResolvableTeam(us) => RejectedInRound(us, r)

OthersAsUsual ==
    \A us \in Range(user_stories_sequence) : \A r \in 1..max_rounds :
        us.depends_on_features = <<>> /\ HasResolvableTeam(us) /\ RoundFinished(r) =>
            \/ RejectedInRound(us, r)
            \/ \E i \in EventsOfType("AssignmentAccepted") :
                   events[i].story_id = us.id /\ event_round[i] <= r

SameNumberBlocks ==
    /\ [](SameNumberNames => BlockedByGrouping /\ OthersAsUsual)
    /\ <>[](pc = "done" /\ Len(events) > 0 /\ events[Len(events)].type = "GapFillingStart")

\* a run of two rounds ended: the grouping is scheduled in the first listed
\* iteration, the team has room for the story in the second, and the story
\* was rejected in both rounds while another story was accepted
SameNumberBlocksWitness ==
    /\ pc = "done"
    /\ max_rounds = 2
    /\ SameNumberNames
    /\ Len(iterations) = 2
    /\ \E us \in ResolvableStories :
           /\ us.depends_on_features # <<>>
           /\ \A g \in Range(us.depends_on_features) :
                  g \in DOMAIN scheduled_features /\ ListIndex(scheduled_features[g]) = 0
           /\ \A d \in Range(us.depends_on_stories) : d \in DOMAIN scheduled_stories
           /\ PlannedEffort(us) * 100 <= RoomLeft(us, iterations[2])
           /\ RejectedInRound(us, 1)
           /\ RejectedInRound(us, 2)
    /\ assignments # <<>>

====
